---- MODULE Spec2Model ----
(***************************************************************************)
(* Model of the record reconciliation core of properties_scraper_extractor *)
(* (src/src/deduplicator.py, src/src/merger.py).                           *)
(*                                                                         *)
(* Python values are tagged: a string is [str |-> <<characters>>], None is *)
(* [none |-> TRUE], an integer is [int |-> n], a boolean [bool |-> b].  A  *)
(* property record (a dict) is a function from the field names it holds to *)
(* values.  Records are identified by their position in the input list, as *)
(* in the code, which passes the same dict objects around.                 *)
(***************************************************************************)
EXTENDS Integers, Sequences, FiniteSets, TLC

VARIABLES
    records,         \* input list of find_duplicates / deduplicate_and_merge / merge_duplicate_group
    wake_records,    \* first input list of merge_sources
    orange_records,  \* second input list of merge_sources
    sim,             \* scores the fuzzywuzzy matcher returns for the strings of this run
    call,            \* the call that was made: its name and arguments
    ret              \* what the call returned (or that it raised)

vars == <<records, wake_records, orange_records, sim, call, ret>>

(***************************************************************************)
(* Bounds of the model.                                                    *)
(***************************************************************************)
MaxRecords == 3
MaxSource == 2

(***************************************************************************)
(* Python values.                                                          *)
(***************************************************************************)
None == [none |-> TRUE]
PyStr(s) == [str |-> s]
PyInt(n) == [int |-> n]
PyBool(b) == [bool |-> b]
\* A float, by its value in hundredths.
PyFloat(h) == [float100 |-> h]

IsNone(v) == DOMAIN v = {"none"}
IsStr(v) == DOMAIN v = {"str"}
IsInt(v) == DOMAIN v = {"int"}
IsBool(v) == DOMAIN v = {"bool"}
IsFloat(v) == DOMAIN v = {"float100"}

EmptyStr == PyStr(<<>>)

\* bool(value): None, "", 0 and False are falsy.
Truthy(v) ==
    IF IsNone(v) THEN FALSE
    ELSE IF IsStr(v) THEN v.str # <<>>
    ELSE IF IsInt(v) THEN v.int # 0
    ELSE IF IsFloat(v) THEN v.float100 # 0
    ELSE v.bool

IsSpace(c) == c = " "

RECURSIVE lstrip(_)
lstrip(s) ==
    IF s = <<>> THEN s
    ELSE IF IsSpace(Head(s)) THEN lstrip(Tail(s))
    ELSE s

RECURSIVE rstrip(_)
rstrip(s) ==
    IF s = <<>> THEN s
    ELSE IF IsSpace(s[Len(s)]) THEN rstrip(SubSeq(s, 1, Len(s) - 1))
    ELSE s

\* str.strip()
strip(s) == rstrip(lstrip(s))

Lowercase ==
    <<"a", "b", "c", "d", "e", "f", "g", "h", "i", "j", "k", "l", "m",
      "n", "o", "p", "q", "r", "s", "t", "u", "v", "w", "x", "y", "z">>

Uppercase ==
    <<"A", "B", "C", "D", "E", "F", "G", "H", "I", "J", "K", "L", "M",
      "N", "O", "P", "Q", "R", "S", "T", "U", "V", "W", "X", "Y", "Z">>

IsLower(c) == \E i \in 1..Len(Lowercase) : Lowercase[i] = c
IsUpper(c) == \E i \in 1..Len(Uppercase) : Uppercase[i] = c

upper_char(c) ==
    IF IsLower(c) THEN Uppercase[CHOOSE i \in 1..Len(Lowercase) : Lowercase[i] = c]
    ELSE c

lower_char(c) ==
    IF IsUpper(c) THEN Lowercase[CHOOSE i \in 1..Len(Uppercase) : Uppercase[i] = c]
    ELSE c

\* str.upper()
upper(s) == [i \in 1..Len(s) |-> upper_char(s[i])]

Digits == <<"0", "1", "2", "3", "4", "5", "6", "7", "8", "9">>

\* str(value), on the values of the model (integers are single digits).
str(v) ==
    IF IsStr(v) THEN v.str
    ELSE IF IsNone(v) THEN <<"N", "o", "n", "e">>
    ELSE IF IsInt(v) THEN <<Digits[v.int + 1]>>
    ELSE IF v.bool THEN <<"T", "r", "u", "e">>
    ELSE <<"F", "a", "l", "s", "e">>

\* record.get(field): None when the key is absent.
get(record, field) ==
    IF field \in DOMAIN record THEN record[field] ELSE None

\* record.get(field, default)
get_default(record, field, default) ==
    IF field \in DOMAIN record THEN record[field] ELSE default

(***************************************************************************)
(* Sequence helpers.                                                       *)
(***************************************************************************)
Range(s) == {s[i] : i \in 1..Len(s)}

\* The elements of the set of positions idxs, in increasing order.
RECURSIVE SortedSeq(_)
SortedSeq(idxs) ==
    IF idxs = {} THEN <<>>
    ELSE LET m == CHOOSE a \in idxs : \A b \in idxs : a <= b
         IN <<m>> \o SortedSeq(idxs \ {m})

RECURSIVE Flatten(_)
Flatten(ss) ==
    IF ss = <<>> THEN <<>> ELSE Head(ss) \o Flatten(Tail(ss))

RECURSIVE SumLen(_)
SumLen(ss) ==
    IF ss = <<>> THEN 0 ELSE Len(Head(ss)) + SumLen(Tail(ss))

SeqsUpTo(S, n) == UNION {[1..k -> S] : k \in 0..n}

(***************************************************************************)
(* Configuration: config/settings.py, DEDUP_THRESHOLDS.                    *)
(***************************************************************************)
exact_match_fields == <<"parcel_id">>
fuzzy_name_threshold == 90
fuzzy_address_threshold == 95


(***************************************************************************)
(* The external matcher fuzz.token_sort_ratio.  Its scores for the pairs   *)
(* of distinct strings of a run are an input of the run (sim); equal       *)
(* strings score 100.                                                      *)
(***************************************************************************)
fuzzy_matcher(s1, s2) ==
    IF s1 = s2 THEN 100
    ELSE IF <<s1, s2>> \in DOMAIN sim THEN sim[<<s1, s2>>]
    ELSE 0

(***************************************************************************)
(* PropertyDeduplicator                                                    *)
(***************************************************************************)
RECURSIVE join(_, _)
join(sep, values) ==
    IF values = <<>> THEN <<>>
    ELSE IF Len(values) = 1 THEN values[1]
    ELSE values[1] \o sep \o join(sep, Tail(values))

\* The loop of _get_exact_match_key: ok is FALSE when a field is missing.
RECURSIVE exact_key_values(_, _)
exact_key_values(record, fields) ==
    IF fields = <<>> THEN [ok |-> TRUE, values |-> <<>>]
    ELSE LET value == get(record, Head(fields))
         IN IF ~Truthy(value) THEN [ok |-> FALSE, values |-> <<>>]
            ELSE LET rest == exact_key_values(record, Tail(fields))
                     value_str == upper(strip(str(value)))
                 IN [ok |-> rest.ok, values |-> <<value_str>> \o rest.values]

\* Mutant of _get_exact_match_key: the values are joined as they are, neither
\* trimmed nor uppercased.
RECURSIVE raw_key_values(_, _)
raw_key_values(record, fields) ==
    IF fields = <<>> THEN [ok |-> TRUE, values |-> <<>>]
    ELSE LET value == get(record, Head(fields))
         IN IF ~Truthy(value) THEN [ok |-> FALSE, values |-> <<>>]
            ELSE LET rest == raw_key_values(record, Tail(fields))
                 IN [ok |-> rest.ok, values |-> <<str(value)>> \o rest.values]

_get_exact_match_key_raw(record) ==
    LET kv == raw_key_values(record, exact_match_fields)
    IN IF kv.ok THEN PyStr(join(<<"|">>, kv.values)) ELSE None

_get_exact_match_key(record) ==
    LET kv == exact_key_values(record, exact_match_fields)
    IN IF kv.ok THEN PyStr(join(<<"|">>, kv.values)) ELSE None

\* Mutant of _find_exact_duplicates: a group takes the first two records of
\* its key only.
_find_exact_duplicates_in_pairs(recs) ==
    LET key(i) == _get_exact_match_key(recs[i])
        keyed == {i \in 1..Len(recs) : Truthy(key(i))}
        firsts == {i \in keyed : \A j \in keyed : j < i => key(j) # key(i)}
        group(f) == SortedSeq({i \in keyed : key(i) = key(f)})
        all_groups == [n \in 1..Cardinality(firsts) |-> group(SortedSeq(firsts)[n])]
        duplicate_groups == SelectSeq(all_groups, LAMBDA g : Len(g) > 1)
        pairs == [n \in 1..Len(duplicate_groups) |-> SubSeq(duplicate_groups[n], 1, 2)]
    IN [groups |-> pairs,
        seen |-> UNION {Range(pairs[n]) : n \in 1..Len(pairs)}]

\* groups is a dict: a key's group is created when the key is first met, and
\* the dict is iterated in that order.  Returns the groups (as positions of
\* the input list) and the set of positions seen.
_find_exact_duplicates(recs) ==
    LET key(i) == _get_exact_match_key(recs[i])
        keyed == {i \in 1..Len(recs) : Truthy(key(i))}
        firsts == {i \in keyed : \A j \in keyed : j < i => key(j) # key(i)}
        group(f) == SortedSeq({i \in keyed : key(i) = key(f)})
        all_groups == [n \in 1..Cardinality(firsts) |-> group(SortedSeq(firsts)[n])]
        duplicate_groups == SelectSeq(all_groups, LAMBDA g : Len(g) > 1)
    IN [groups |-> duplicate_groups,
        seen |-> UNION {Range(duplicate_groups[n]) : n \in 1..Len(duplicate_groups)}]

_is_fuzzy_duplicate(record1, record2) ==
    LET name1 == upper(strip(str(get_default(record1, "owner_name", EmptyStr))))
        name2 == upper(strip(str(get_default(record2, "owner_name", EmptyStr))))
        addr1 == upper(strip(str(get_default(record1, "property_address", EmptyStr))))
        addr2 == upper(strip(str(get_default(record2, "property_address", EmptyStr))))
    IN IF name1 = <<>> \/ name2 = <<>> THEN FALSE
       ELSE LET name_similarity == fuzzy_matcher(name1, name2)
                address_similarity ==
                    IF addr1 # <<>> /\ addr2 # <<>> THEN fuzzy_matcher(addr1, addr2) ELSE 0
                name_match == name_similarity >= fuzzy_name_threshold
            IN IF addr1 # <<>> /\ addr2 # <<>>
               THEN name_match /\ address_similarity >= fuzzy_address_threshold
               ELSE name_match

\* Mutant of fuzzy_inner: each record is compared with the last member of the
\* evolving group instead of the anchor (transitive chaining).
RECURSIVE fuzzy_inner_chained(_, _, _, _, _, _)
fuzzy_inner_chained(recs, remaining, i, j, seen_indices, current_group) ==
    IF j > Len(remaining) THEN current_group
    ELSE IF remaining[j] \in seen_indices
         THEN fuzzy_inner_chained(recs, remaining, i, j + 1, seen_indices, current_group)
    ELSE IF _is_fuzzy_duplicate(recs[current_group[Len(current_group)]],
                                recs[remaining[j]])
         THEN fuzzy_inner_chained(recs, remaining, i, j + 1, seen_indices,
                                  Append(current_group, remaining[j]))
    ELSE fuzzy_inner_chained(recs, remaining, i, j + 1, seen_indices, current_group)

\* The inner loop of _find_fuzzy_duplicates: j runs over the records after the
\* anchor remaining[i]; each unseen one is compared with the anchor.
RECURSIVE fuzzy_inner(_, _, _, _, _, _)
fuzzy_inner(recs, remaining, i, j, seen_indices, current_group) ==
    IF j > Len(remaining) THEN current_group
    ELSE IF remaining[j] \in seen_indices
         THEN fuzzy_inner(recs, remaining, i, j + 1, seen_indices, current_group)
    ELSE IF _is_fuzzy_duplicate(recs[remaining[i]], recs[remaining[j]])
         THEN fuzzy_inner(recs, remaining, i, j + 1, seen_indices,
                          Append(current_group, remaining[j]))
    ELSE fuzzy_inner(recs, remaining, i, j + 1, seen_indices, current_group)

\* Mutant of fuzzy_outer: the inner loop starts two places after the anchor.
RECURSIVE fuzzy_outer_skipping_next(_, _, _, _, _)
fuzzy_outer_skipping_next(recs, remaining, i, duplicate_groups, seen_indices) ==
    IF i > Len(remaining)
    THEN [groups |-> duplicate_groups, seen |-> seen_indices]
    ELSE IF remaining[i] \in seen_indices
         THEN fuzzy_outer_skipping_next(recs, remaining, i + 1, duplicate_groups,
                                        seen_indices)
    ELSE LET current_group ==
                 fuzzy_inner(recs, remaining, i, i + 2, seen_indices, <<remaining[i]>>)
         IN IF Len(current_group) > 1
            THEN fuzzy_outer_skipping_next(recs, remaining, i + 1,
                                           Append(duplicate_groups, current_group),
                                           seen_indices \cup Range(current_group))
            ELSE fuzzy_outer_skipping_next(recs, remaining, i + 1, duplicate_groups,
                                           seen_indices)

\* The outer loop of _find_fuzzy_duplicates.
RECURSIVE fuzzy_outer(_, _, _, _, _)
fuzzy_outer(recs, remaining, i, duplicate_groups, seen_indices) ==
    IF i > Len(remaining)
    THEN [groups |-> duplicate_groups, seen |-> seen_indices]
    ELSE IF remaining[i] \in seen_indices
         THEN fuzzy_outer(recs, remaining, i + 1, duplicate_groups, seen_indices)
    ELSE LET current_group ==
                 fuzzy_inner(recs, remaining, i, i + 1, seen_indices, <<remaining[i]>>)
         IN IF Len(current_group) > 1
            THEN fuzzy_outer(recs, remaining, i + 1,
                             Append(duplicate_groups, current_group),
                             seen_indices \cup Range(current_group))
            ELSE fuzzy_outer(recs, remaining, i + 1, duplicate_groups, seen_indices)

\* remaining: the positions (in the input list) of the records handed over.
_find_fuzzy_duplicates(recs, remaining) ==
    fuzzy_outer(recs, remaining, 1, <<>>, {})

\* Mutant of find_duplicates: the fuzzy pass runs over every record, also
\* over those the exact pass has grouped.
find_duplicates_fuzzy_over_all(recs, use_exact, use_fuzzy) ==
    LET exact == IF use_exact THEN _find_exact_duplicates(recs)
                 ELSE [groups |-> <<>>, seen |-> {}]
        fuzzy == IF use_fuzzy THEN _find_fuzzy_duplicates(recs, SortedSeq(1..Len(recs)))
                 ELSE [groups |-> <<>>, seen |-> {}]
        seen_indices == exact.seen \cup fuzzy.seen
    IN [unique_records |-> SortedSeq((1..Len(recs)) \ seen_indices),
        duplicate_groups |-> exact.groups \o fuzzy.groups]

\* Returns unique_records and duplicate_groups as positions of the input list.
find_duplicates(recs, use_exact, use_fuzzy) ==
    LET exact == IF use_exact THEN _find_exact_duplicates(recs)
                 ELSE [groups |-> <<>>, seen |-> {}]
        remaining_records == SortedSeq((1..Len(recs)) \ exact.seen)
        fuzzy == IF use_fuzzy THEN _find_fuzzy_duplicates(recs, remaining_records)
                 ELSE [groups |-> <<>>, seen |-> {}]
        seen_indices == exact.seen \cup fuzzy.seen
    IN [unique_records |-> SortedSeq((1..Len(recs)) \ seen_indices),
        duplicate_groups |-> exact.groups \o fuzzy.groups]


\* What a call produced: a returned value or a raised exception.
Returned(v) == [value |-> v]
Raised(e) == [raised |-> e]
HasRaised(r) == DOMAIN r = {"raised"}

\* values.append(value) for every value that is not None and not "".
field_values(duplicate_group, field) ==
    SelectSeq([i \in 1..Len(duplicate_group) |-> get(duplicate_group[i], field)],
              LAMBDA value : ~IsNone(value) /\ value # EmptyStr)

\* len(value) is defined for strings only: len of a number or a boolean
\* raises TypeError.
has_len(value) == IsStr(value)

\* max(values, key=len): the first of the longest values.
max_by_len(values) ==
    LET best == CHOOSE i \in 1..Len(values) :
                    /\ \A k \in 1..Len(values) : Len(values[k].str) <= Len(values[i].str)
                    /\ \A k \in 1..(i - 1) : Len(values[k].str) < Len(values[i].str)
    IN values[best]

merge_metadata == {"is_merged", "duplicate_count"}

_merge_most_complete(duplicate_group) ==
    LET all_fields == UNION {DOMAIN duplicate_group[i] : i \in 1..Len(duplicate_group)}
        type_error(field) ==
            LET values == field_values(duplicate_group, field)
            IN /\ values # <<>>
               /\ IsStr(values[1])
               /\ \E k \in 1..Len(values) : ~has_len(values[k])
        most_complete(field) ==
            LET values == field_values(duplicate_group, field)
            IN IF values # <<>>
               THEN IF IsStr(values[1]) THEN max_by_len(values) ELSE values[1]
               ELSE EmptyStr
    IN IF \E field \in all_fields : type_error(field)
       THEN Raised("TypeError")
       ELSE Returned([field \in all_fields \cup merge_metadata |->
                         IF field = "is_merged" THEN PyBool(TRUE)
                         ELSE IF field = "duplicate_count" THEN PyInt(Len(duplicate_group))
                         ELSE most_complete(field)])

EmptyDict == [field \in {} |-> None]

merge_duplicate_group(duplicate_group, strategy) ==
    IF duplicate_group = <<>> THEN Returned(EmptyDict)
    ELSE IF Len(duplicate_group) = 1 THEN Returned(duplicate_group[1])
    ELSE IF strategy = "first" THEN Returned(duplicate_group[1])
    ELSE IF strategy = "last" THEN Returned(duplicate_group[Len(duplicate_group)])
    ELSE IF strategy = "most_complete" THEN _merge_most_complete(duplicate_group)
    ELSE _merge_most_complete(duplicate_group)

\* The records at the positions idxs of recs.
records_at(recs, idxs) == [k \in 1..Len(idxs) |-> recs[idxs[k]]]

\* The end of deduplicate_and_merge: an exception of a merge leaves the
\* function; otherwise the merged records are appended to the unique ones.
merge_found(recs, found, merged) ==
    IF \E n \in 1..Len(merged) : HasRaised(merged[n])
    THEN Raised("TypeError")
    ELSE Returned([deduplicated_records |->
                       records_at(recs, found.unique_records)
                           \o [n \in 1..Len(merged) |-> merged[n].value],
                   all_duplicates |-> records_at(recs, Flatten(found.duplicate_groups))])

\* The loop over duplicate_groups: merged_records, one entry for each group.
merged_groups(recs, groups, merge_strategy) ==
    [n \in 1..Len(groups) |->
        merge_duplicate_group(records_at(recs, groups[n]), merge_strategy)]

\* deduplicate_and_merge after find_duplicates has returned found.
merge_all(recs, found, merge_strategy) ==
    merge_found(recs, found, merged_groups(recs, found.duplicate_groups, merge_strategy))

deduplicate_and_merge(recs, merge_strategy, use_exact, use_fuzzy) ==
    merge_all(recs, find_duplicates(recs, use_exact, use_fuzzy), merge_strategy)

(***************************************************************************)
(* Inputs.  Absent marks a key the record does not hold.                   *)
(***************************************************************************)
Absent == [absent |-> TRUE]

\* The dict with the given values, without the keys whose value is Absent.
MakeRecord(fields) ==
    [f \in {g \in DOMAIN fields : fields[g] # Absent} |-> fields[f]]

normalized(record, field) == upper(strip(str(get_default(record, field, EmptyStr))))

\* The pairs of distinct non-empty strings the matcher can be asked about:
\* a field of an earlier record with the same field of a later one.
MatcherPairs(recs) ==
    {pr \in {<<normalized(recs[i], f), normalized(recs[j], f)>> :
                 i \in 1..Len(recs), j \in 1..Len(recs),
                 f \in {"owner_name", "property_address"}} :
        /\ pr[1] # pr[2] /\ pr[1] # <<>> /\ pr[2] # <<>>
        /\ \E i, j \in 1..Len(recs), f \in {"owner_name", "property_address"} :
              /\ i < j
              /\ pr = <<normalized(recs[i], f), normalized(recs[j], f)>>}

\* Scores on both sides of the two thresholds.
Scores == {fuzzy_name_threshold - 1, fuzzy_name_threshold,
           fuzzy_address_threshold - 1, fuzzy_address_threshold}
NameScores == {fuzzy_name_threshold - 1, fuzzy_name_threshold}

NoCall == [op |-> "none"]

\* The state before the call: the input list, the matcher's scores for it.
InputState(pool, max_len, scores) ==
    /\ records \in SeqsUpTo(pool, max_len)
    /\ sim \in [MatcherPairs(records) -> scores]
    /\ wake_records = <<>>
    /\ orange_records = <<>>
    /\ call = NoCall
    /\ ret = Returned(None)

(***************************************************************************)
(* find_duplicates on lists of records with a parcel_id and an owner_name. *)
(***************************************************************************)
ParcelIds == {Absent, PyStr(<<"p">>), PyStr(<<"P", " ">>), PyStr(<<"q">>)}
OwnerNames == {Absent, PyStr(<<"a">>), PyStr(<<"b">>), PyStr(<<"c">>)}

DedupRecords ==
    {MakeRecord([parcel_id |-> p, owner_name |-> n]) : p \in ParcelIds, n \in OwnerNames}

Init == InputState(DedupRecords, MaxRecords, NameScores)

FindDuplicates ==
    /\ call = NoCall
    /\ \E use_exact \in BOOLEAN, use_fuzzy \in BOOLEAN :
         /\ call' = [op |-> "find_duplicates", use_exact |-> use_exact,
                     use_fuzzy |-> use_fuzzy]
         /\ ret' = Returned(find_duplicates(records, use_exact, use_fuzzy))
    /\ UNCHANGED <<records, wake_records, orange_records, sim>>

Next == FindDuplicates

Spec == Init /\ [][Next]_vars

(***************************************************************************)
(* find_duplicates on lists of records that differ in their parcel_id only.*)
(***************************************************************************)
ExactParcelIds ==
    {Absent, None, EmptyStr, PyStr(<<" ">>), PyStr(<<"p">>), PyStr(<<"P", " ">>),
     PyStr(<<"q">>)}

ExactRecords == {MakeRecord([parcel_id |-> p]) : p \in ExactParcelIds}

InitExact == InputState(ExactRecords, MaxRecords, NameScores)

SpecExact == InitExact /\ [][Next]_vars

(***************************************************************************)
(* Claims about find_duplicates.                                           *)
(***************************************************************************)
FoundDuplicates == call.op = "find_duplicates"

\* How often position idx occurs in the sequence s.
Occurrences(s, idx) == Cardinality({k \in 1..Len(s) : s[k] = idx})

\* C1: find_duplicates partitions its input.  For every input list and every
\* setting of use_exact and use_fuzzy each position of the input occurs exactly
\* once in unique_records and the duplicate groups together, every duplicate
\* group has at least 2 members, and len(unique_records) plus the sum of the
\* group sizes is len(records).
C1_Partition ==
    FoundDuplicates =>
        LET unique == ret.value.unique_records
            groups == ret.value.duplicate_groups
            placed == unique \o Flatten(groups)
        IN /\ Range(placed) \subseteq 1..Len(records)
           /\ \A idx \in 1..Len(records) : Occurrences(placed, idx) = 1
           /\ \A n \in 1..Len(groups) : Len(groups[n]) >= 2
           /\ Len(unique) + SumLen(groups) = Len(records)

\* Both passes ran, the exact pass formed a group, and the fuzzy pass went
\* over the records left, next to a record returned as unique.
C1_Witness ==
    /\ FoundDuplicates /\ call.use_exact /\ call.use_fuzzy
    /\ Len(ret.value.duplicate_groups) >= 1
    /\ Len(ret.value.unique_records) >= 1
    /\ _find_exact_duplicates(records).groups # <<>>
    /\ \E i \in 1..Len(records) :
          /\ i \in _find_exact_duplicates(records).seen
          /\ \E j \in 1..Len(records) :
                j # i /\ j \notin _find_exact_duplicates(records).seen
                /\ _is_fuzzy_duplicate(records[i], records[j])


\* Positions i and j are members of one duplicate group.
SameGroup(groups, i, j) ==
    \E n \in 1..Len(groups) : i \in Range(groups[n]) /\ j \in Range(groups[n])

ExactOnly == FoundDuplicates /\ call.use_exact /\ ~call.use_fuzzy

\* The parcel_id of the record, trimmed and uppercased ("" when it has none).
ParcelOf(record) ==
    IF Truthy(get(record, "parcel_id")) THEN upper(strip(str(get(record, "parcel_id"))))
    ELSE <<>>

\* The record holds a parcel_id that is not None and not the empty string.
HasParcelId(record) ==
    ~IsNone(get(record, "parcel_id")) /\ get(record, "parcel_id") # EmptyStr

\* C2 as stated: in the exact pass (use_exact, not use_fuzzy) two records are in
\* one duplicate group if and only if both have a non-empty parcel_id and their
\* trimmed, uppercased parcel_ids are equal; a record whose normalized parcel_id
\* no other record shares, or that has no parcel_id, is returned as unique.
C2_AsStated ==
    ExactOnly =>
        LET unique == ret.value.unique_records
            groups == ret.value.duplicate_groups
        IN /\ \A i, j \in 1..Len(records) :
                 i # j =>
                    (SameGroup(groups, i, j) <=>
                        /\ HasParcelId(records[i]) /\ HasParcelId(records[j])
                        /\ ParcelOf(records[i]) = ParcelOf(records[j]))
           /\ \A i \in 1..Len(records) :
                 (\/ ~HasParcelId(records[i])
                  \/ \A j \in 1..Len(records) :
                        j # i => ParcelOf(records[j]) # ParcelOf(records[i]))
                     => i \in Range(unique)

\* C2, amended: in the exact pass two records are in one duplicate group if and
\* only if both have a parcel_id that is non-empty after trimming and their
\* trimmed, uppercased parcel_ids are equal; a record whose parcel_id is missing
\* or blank, or whose normalized parcel_id no other record shares, is returned
\* as unique.
C2_ExactGroups ==
    ExactOnly =>
        LET unique == ret.value.unique_records
            groups == ret.value.duplicate_groups
        IN /\ \A i, j \in 1..Len(records) :
                 i # j =>
                    (SameGroup(groups, i, j) <=>
                        /\ ParcelOf(records[i]) # <<>>
                        /\ ParcelOf(records[i]) = ParcelOf(records[j]))
           /\ \A i \in 1..Len(records) :
                 (\/ ParcelOf(records[i]) = <<>>
                  \/ \A j \in 1..Len(records) :
                        j # i => ParcelOf(records[j]) # ParcelOf(records[i]))
                     => i \in Range(unique)

\* The exact pass grouped two records whose parcel_ids differ as written and
\* left alone a record with another parcel_id and two with blank parcel_ids.
C2_Witness ==
    /\ ExactOnly
    /\ \E i, j \in 1..Len(records) :
          /\ i # j
          /\ get(records[i], "parcel_id") # get(records[j], "parcel_id")
          /\ SameGroup(ret.value.duplicate_groups, i, j)
    /\ \E i \in 1..Len(records) :
          ParcelOf(records[i]) # <<>> /\ i \in Range(ret.value.unique_records)


\* The groups of the result that the fuzzy pass formed: those after the groups
\* of the exact pass.
FuzzyGroups ==
    LET groups == ret.value.duplicate_groups
        exact_count == IF call.use_exact THEN Len(_find_exact_duplicates(records).groups)
                       ELSE 0
    IN SubSeq(groups, exact_count + 1, Len(groups))

\* C3: the fuzzy pass is anchor-based and non-transitive.  In every fuzzy group
\* the first member (the anchor) has the lowest input position of the group and
\* every other member satisfies the pairwise predicate with the anchor, so a
\* record that matches a member but not the anchor is not in the group; and the
\* anchor of a group is a member of no other group.
C3_AnchorBased ==
    (FoundDuplicates /\ call.use_fuzzy) =>
        LET groups == ret.value.duplicate_groups
            fuzzy == FuzzyGroups
        IN /\ \A n \in 1..Len(fuzzy) : \A k \in 2..Len(fuzzy[n]) :
                 /\ fuzzy[n][1] < fuzzy[n][k]
                 /\ _is_fuzzy_duplicate(records[fuzzy[n][1]], records[fuzzy[n][k]])
           /\ \A n \in 1..Len(fuzzy) : \A k \in 1..Len(records) :
                 (/\ fuzzy[n][1] < k
                  /\ ~_is_fuzzy_duplicate(records[fuzzy[n][1]], records[k]))
                     => k \notin Range(fuzzy[n])
           /\ \A n \in 1..Len(fuzzy) :
                 Cardinality({m \in 1..Len(groups) : fuzzy[n][1] \in Range(groups[m])}) = 1

\* A fuzzy group with anchor i and member j, and a later record k that matches
\* j but not i and was left out of the group.
C3_Witness ==
    /\ FoundDuplicates /\ call.use_fuzzy
    /\ \E n \in 1..Len(FuzzyGroups) : \E k \in 1..Len(records) :
          LET group == FuzzyGroups[n]
          IN /\ Len(group) >= 2
             /\ group[2] < k
             /\ _is_fuzzy_duplicate(records[group[2]], records[k])
             /\ ~_is_fuzzy_duplicate(records[group[1]], records[k])
             /\ k \notin Range(group)


(***************************************************************************)
(* _is_fuzzy_duplicate on a pair of records with an owner_name and a       *)
(* property_address, each absent, None, empty, blank or a text.            *)
(***************************************************************************)
PairOwnerNames ==
    {Absent, None, EmptyStr, PyStr(<<" ">>), PyStr(<<"a">>), PyStr(<<"A", " ">>),
     PyStr(<<"b">>)}
PairAddresses ==
    {Absent, None, EmptyStr, PyStr(<<" ">>), PyStr(<<"x">>), PyStr(<<"y">>)}

PairRecords ==
    {MakeRecord([owner_name |-> n, property_address |-> a]) :
         n \in PairOwnerNames, a \in PairAddresses}

InitFuzzy ==
    /\ records \in [1..2 -> PairRecords]
    /\ sim \in [MatcherPairs(records) -> Scores]
    /\ wake_records = <<>>
    /\ orange_records = <<>>
    /\ call = NoCall
    /\ ret = Returned(None)

IsFuzzyDuplicate ==
    /\ call = NoCall
    /\ call' = [op |-> "_is_fuzzy_duplicate"]
    /\ ret' = Returned(_is_fuzzy_duplicate(records[1], records[2]))
    /\ UNCHANGED <<records, wake_records, orange_records, sim>>

NextFuzzy == IsFuzzyDuplicate

SpecFuzzy == InitFuzzy /\ [][NextFuzzy]_vars

(***************************************************************************)
(* Claims about _is_fuzzy_duplicate.                                       *)
(***************************************************************************)
ComparedPair == call.op = "_is_fuzzy_duplicate"

\* The field is missing: key absent, value None, or an empty or blank string.
Missing(record, field) ==
    \/ field \notin DOMAIN record
    \/ IsNone(record[field])
    \/ (IsStr(record[field]) /\ strip(record[field].str) = <<>>)

\* The matcher's score for the field of the two records, case-normalized.
Similarity(field) ==
    fuzzy_matcher(normalized(records[1], field), normalized(records[2], field))

\* C4: for two records that both have an owner name, the pairwise predicate is
\* true exactly when the name similarity is >= 90 and (at least one
\* property_address is missing or empty, or the address similarity is >= 95).
C4_AsStated ==
    (/\ ComparedPair
     /\ ~Missing(records[1], "owner_name")
     /\ ~Missing(records[2], "owner_name")) =>
        (ret.value <=>
            /\ Similarity("owner_name") >= fuzzy_name_threshold
            /\ \/ Missing(records[1], "property_address")
               \/ Missing(records[2], "property_address")
               \/ Similarity("property_address") >= fuzzy_address_threshold)

\* C5: when the owner name is missing on either record (key absent, value
\* None, or an empty or blank string) the predicate returns false, whatever the
\* other fields hold.
C5_AsStated ==
    (/\ ComparedPair
     /\ \/ Missing(records[1], "owner_name")
        \/ Missing(records[2], "owner_name")) =>
        (~HasRaised(ret) /\ ret.value = FALSE)


(***************************************************************************)
(* merge_duplicate_group on groups of records with an owner_name (a text)  *)
(* and an assessed_value (a number from the API, a text from the scraper). *)
(***************************************************************************)
Strategies == {"most_complete", "first", "last", "newest"}

GroupOwnerNames ==
    {Absent, None, EmptyStr, PyStr(<<"a">>), PyStr(<<"b">>), PyStr(<<"a", "b">>)}
GroupAssessedValues == {Absent, None, PyInt(0), PyStr(<<"5">>)}

GroupRecords ==
    {MakeRecord([owner_name |-> n, assessed_value |-> v]) :
         n \in GroupOwnerNames, v \in GroupAssessedValues}

\* The matcher is not called by merge_duplicate_group.
InitGroup ==
    /\ records \in SeqsUpTo(GroupRecords, MaxRecords)
    /\ sim = <<>>
    /\ wake_records = <<>>
    /\ orange_records = <<>>
    /\ call = NoCall
    /\ ret = Returned(None)

MergeDuplicateGroup ==
    /\ call = NoCall
    /\ \E strategy \in Strategies :
         /\ call' = [op |-> "merge_duplicate_group", strategy |-> strategy]
         /\ ret' = merge_duplicate_group(records, strategy)
    /\ UNCHANGED <<records, wake_records, orange_records, sim>>

NextGroup == MergeDuplicateGroup

SpecGroup == InitGroup /\ [][NextGroup]_vars

(***************************************************************************)
(* deduplicate_and_merge on lists of records with a parcel_id, an          *)
(* owner_name and an assessed_value.                                       *)
(***************************************************************************)
MergedParcelIds == {Absent, PyStr(<<"p">>), PyStr(<<"P", " ">>)}
MergedOwnerNames == {PyStr(<<"a">>), PyStr(<<"b">>)}
MergedAssessedValues == {PyInt(5), PyStr(<<"5">>)}

DedupMergeRecords ==
    {MakeRecord([parcel_id |-> p, owner_name |-> n, assessed_value |-> v]) :
         p \in MergedParcelIds, n \in MergedOwnerNames, v \in MergedAssessedValues}

InitDedupMerge == InputState(DedupMergeRecords, MaxRecords, NameScores)

DeduplicateAndMerge ==
    /\ call = NoCall
    /\ \E merge_strategy \in Strategies, use_exact \in BOOLEAN, use_fuzzy \in BOOLEAN :
         /\ call' = [op |-> "deduplicate_and_merge", merge_strategy |-> merge_strategy,
                     use_exact |-> use_exact, use_fuzzy |-> use_fuzzy]
         /\ ret' = deduplicate_and_merge(records, merge_strategy, use_exact, use_fuzzy)
    /\ UNCHANGED <<records, wake_records, orange_records, sim>>

NextDedupMerge == DeduplicateAndMerge

SpecDedupMerge == InitDedupMerge /\ [][NextDedupMerge]_vars

(***************************************************************************)
(* Claims about merge_duplicate_group and deduplicate_and_merge.           *)
(***************************************************************************)
\* The value is not None and not the empty string.
NonEmpty(value) == ~IsNone(value) /\ value # EmptyStr

\* The non-empty values the members of the group hold for the field, in
\* group order.
MemberValues(field) ==
    SelectSeq([i \in 1..Len(records) |-> get(records[i], field)], NonEmpty)

\* C6: merge_duplicate_group with most_complete on a group of >= 2 records
\* returns a record that holds every field key of every member; for every
\* field that some member holds a non-empty value for, the result's value is
\* non-empty: a longest value when the values are strings, otherwise the first
\* non-empty value in group order; and the result is tagged is_merged = true
\* and duplicate_count = group size.
C6_AsStated ==
    (/\ call.op = "merge_duplicate_group"
     /\ call.strategy = "most_complete"
     /\ Len(records) >= 2) =>
        /\ ~HasRaised(ret)
        /\ \A i \in 1..Len(records) : DOMAIN records[i] \subseteq DOMAIN ret.value
        /\ \A i \in 1..Len(records) : \A field \in DOMAIN records[i] :
              LET values == MemberValues(field)
              IN values # <<>> =>
                    /\ NonEmpty(ret.value[field])
                    /\ IF \A k \in 1..Len(values) : IsStr(values[k])
                       THEN /\ ret.value[field] \in Range(values)
                            /\ \A k \in 1..Len(values) :
                                  Len(values[k].str) <= Len(ret.value[field].str)
                       ELSE ret.value[field] = values[1]
        /\ ret.value["is_merged"] = PyBool(TRUE)
        /\ ret.value["duplicate_count"] = PyInt(Len(records))

\* C7: deduplicate_and_merge returns the unique records, unmodified and in
\* input order, followed by one merged record per duplicate group, and the
\* concatenation of the members of all groups: the first list has
\* |unique| + |groups| entries, the second as many as the group sizes add up to.
C7_AsStated ==
    call.op = "deduplicate_and_merge" =>
        LET found == find_duplicates(records, call.use_exact, call.use_fuzzy)
            unique == found.unique_records
            groups == found.duplicate_groups
        IN /\ ~HasRaised(ret)
           /\ Len(ret.value.deduplicated_records) = Len(unique) + Len(groups)
           /\ SubSeq(ret.value.deduplicated_records, 1, Len(unique))
                 = records_at(records, unique)
           /\ ret.value.all_duplicates = records_at(records, Flatten(groups))
           /\ Len(ret.value.all_duplicates) = SumLen(groups)


(***************************************************************************)
(* PropertyMerger                                                          *)
(***************************************************************************)
\* grouped[key_normalized]: the positions of the records with that key, in
\* input order.  A record whose key value is falsy is put in no group.
_group_by_key(recs, key) ==
    LET has_key(i) == Truthy(get(recs[i], key))
        key_normalized(i) == upper(strip(str(get(recs[i], key))))
        keys == {key_normalized(i) : i \in {k \in 1..Len(recs) : has_key(k)}}
    IN [k \in keys |-> SortedSeq({i \in 1..Len(recs) : has_key(i) /\ key_normalized(i) = k})]

\* grouped.get(key, [])
group_of(grouped, key) ==
    IF key \in DOMAIN grouped THEN grouped[key] ELSE <<>>

\* Mutant of _merge_field_values: of two strings of the same length the second
\* is returned.
_merge_field_values_ties_to_second(value1, value2, prefer_source, source1, source2) ==
    LET is_empty1 == IsNone(value1) \/ (IsStr(value1) /\ strip(value1.str) = <<>>)
        is_empty2 == IsNone(value2) \/ (IsStr(value2) /\ strip(value2.str) = <<>>)
    IN IF is_empty1 /\ ~is_empty2 THEN value2
       ELSE IF is_empty2 /\ ~is_empty1 THEN value1
       ELSE IF is_empty1 /\ is_empty2 THEN EmptyStr
       ELSE IF Truthy(prefer_source) /\ source1 = prefer_source THEN value1
       ELSE IF Truthy(prefer_source) /\ source2 = prefer_source THEN value2
       ELSE IF IsStr(value1) /\ IsStr(value2)
            THEN (IF Len(value1.str) > Len(value2.str) THEN value1 ELSE value2)
       ELSE value1

_merge_field_values(value1, value2, prefer_source, source1, source2) ==
    LET is_empty1 == IsNone(value1) \/ (IsStr(value1) /\ strip(value1.str) = <<>>)
        is_empty2 == IsNone(value2) \/ (IsStr(value2) /\ strip(value2.str) = <<>>)
    IN IF is_empty1 /\ ~is_empty2 THEN value2
       ELSE IF is_empty2 /\ ~is_empty1 THEN value1
       ELSE IF is_empty1 /\ is_empty2 THEN EmptyStr
       ELSE IF Truthy(prefer_source) /\ source1 = prefer_source THEN value1
       ELSE IF Truthy(prefer_source) /\ source2 = prefer_source THEN value2
       ELSE IF IsStr(value1) /\ IsStr(value2)
            THEN (IF Len(value1.str) >= Len(value2.str) THEN value1 ELSE value2)
       ELSE value1

\* The characters of the model in code point order.
CharOrder ==
    <<" ", "+", "0", "1", "2", "3", "4", "5", "6", "7", "8", "9",
      "A", "B", "C", "E", "F", "N", "O", "P", "Q", "T", "W", "X", "Y",
      "a", "b", "c", "e", "l", "n", "o", "p", "q", "r", "s", "u", "w", "x", "y", "|">>

ord(c) == CHOOSE i \in 1..Len(CharOrder) : CharOrder[i] = c

\* s1 < s2 for strings (lexicographic by code point).
RECURSIVE str_less(_, _)
str_less(s1, s2) ==
    IF s2 = <<>> THEN FALSE
    ELSE IF s1 = <<>> THEN TRUE
    ELSE IF Head(s1) = Head(s2) THEN str_less(Tail(s1), Tail(s2))
    ELSE ord(Head(s1)) < ord(Head(s2))

\* sep.join(parts) for the truthy ones of value1, value2, "" when there is
\* none; str.join raises TypeError on an item that is not a string.
join_present(sep, value1, value2) ==
    LET parts == SelectSeq(<<value1, value2>>, Truthy)
    IN IF parts = <<>> THEN Returned(EmptyStr)
       ELSE IF \E k \in 1..Len(parts) : ~IsStr(parts[k]) THEN Raised("TypeError")
       ELSE Returned(PyStr(join(sep, [k \in 1..Len(parts) |-> parts[k].str])))

\* Mutant of latest: of two timestamps the first record's is kept.
latest_of_first(value1, value2) ==
    IF Truthy(value1) THEN Returned(value1)
    ELSE IF Truthy(value2) THEN Returned(value2)
    ELSE Returned(EmptyStr)

\* max(value1, value2) when both are truthy, else value1 or value2 or "".
\* Comparing a string with a number raises TypeError.
latest(value1, value2) ==
    IF Truthy(value1) /\ Truthy(value2)
    THEN IF IsStr(value1) /\ IsStr(value2)
         THEN Returned(IF str_less(value1.str, value2.str) THEN value2 ELSE value1)
         ELSE IF IsStr(value1) \/ IsStr(value2) THEN Raised("TypeError")
         ELSE Returned(IF (IF IsInt(value1) THEN value1.int ELSE 1)
                            < (IF IsInt(value2) THEN value2.int ELSE 1)
                       THEN value2 ELSE value1)
    ELSE IF Truthy(value1) THEN Returned(value1)
    ELSE IF Truthy(value2) THEN Returned(value2)
    ELSE Returned(EmptyStr)

merge_record_pair(record1, record2, prefer_source) ==
    LET all_fields == DOMAIN record1 \cup DOMAIN record2
        merged_field(field) ==
            LET value1 == get(record1, field)
                value2 == get(record2, field)
            IN IF field = "source" THEN join_present(<<" ", "+", " ">>, value1, value2)
               ELSE IF field = "source_url"
                    THEN join_present(<<" ", "|", " ">>, value1, value2)
               ELSE IF field = "extracted_at" THEN latest(value1, value2)
               ELSE Returned(_merge_field_values(value1, value2, prefer_source,
                                                 get(record1, "source"),
                                                 get(record2, "source")))
    IN IF \E field \in all_fields : HasRaised(merged_field(field))
       THEN Raised("TypeError")
       ELSE Returned([field \in all_fields \cup {"is_cross_source_merged"} |->
                         IF field = "is_cross_source_merged" THEN PyBool(TRUE)
                         ELSE merged_field(field).value])


\* The orders in which a set of keys can be iterated.
KeyOrders(keys) ==
    {order \in [1..Cardinality(keys) -> keys] :
        \A i, j \in 1..Cardinality(keys) : i # j => order[i] # order[j]}

\* Mutant of cross_product: the records of the two groups are paired one to
\* one, in order, instead of each with each.
cross_product_zipped(wake, orange, wake_group, orange_group) ==
    LET shorter == IF Len(wake_group) <= Len(orange_group) THEN Len(wake_group)
                   ELSE Len(orange_group)
    IN [n \in 1..shorter |->
           merge_record_pair(wake[wake_group[n]], orange[orange_group[n]], None)]

\* for wake_rec in wake_group: for orange_rec in orange_group: merge the pair.
cross_product(wake, orange, wake_group, orange_group) ==
    [n \in 1..(Len(wake_group) * Len(orange_group)) |->
        merge_record_pair(wake[wake_group[((n - 1) \div Len(orange_group)) + 1]],
                          orange[orange_group[((n - 1) % Len(orange_group)) + 1]],
                          None)]

\* The loop of merge_sources over the keys still to visit.
RECURSIVE merge_loop(_, _, _, _, _, _, _)
merge_loop(wake, orange, wake_by_key, orange_by_key, keys, merged_records, stats) ==
    IF keys = <<>>
    THEN Returned([merged_records |-> merged_records,
                   stats |-> [stats EXCEPT !.total = Len(merged_records)]])
    ELSE LET wake_group == group_of(wake_by_key, Head(keys))
             orange_group == group_of(orange_by_key, Head(keys))
         IN IF wake_group # <<>> /\ orange_group # <<>>
            THEN LET pairs == cross_product(wake, orange, wake_group, orange_group)
                 IN IF \E n \in 1..Len(pairs) : HasRaised(pairs[n])
                    THEN Raised("TypeError")
                    ELSE merge_loop(wake, orange, wake_by_key, orange_by_key, Tail(keys),
                                    merged_records \o [n \in 1..Len(pairs) |-> pairs[n].value],
                                    [stats EXCEPT !.merged = @ + Len(pairs)])
            ELSE IF wake_group # <<>>
            THEN merge_loop(wake, orange, wake_by_key, orange_by_key, Tail(keys),
                            merged_records \o records_at(wake, wake_group),
                            [stats EXCEPT !.wake_only = @ + Len(wake_group)])
            ELSE IF orange_group # <<>>
            THEN merge_loop(wake, orange, wake_by_key, orange_by_key, Tail(keys),
                            merged_records \o records_at(orange, orange_group),
                            [stats EXCEPT !.orange_only = @ + Len(orange_group)])
            ELSE merge_loop(wake, orange, wake_by_key, orange_by_key, Tail(keys),
                            merged_records, stats)

\* Mutant of all_keys: only the keys of the first source are visited.
all_keys_of_wake(wake, orange, merge_key) ==
    DOMAIN _group_by_key(wake, merge_key)

\* set(wake_by_key.keys()) | set(orange_by_key.keys())
all_keys(wake, orange, merge_key) ==
    DOMAIN _group_by_key(wake, merge_key) \cup DOMAIN _group_by_key(orange, merge_key)

\* key_order: the order in which the set all_keys is iterated.
merge_sources(wake, orange, merge_key, key_order) ==
    merge_loop(wake, orange, _group_by_key(wake, merge_key),
               _group_by_key(orange, merge_key), key_order, <<>>,
               [wake_only |-> 0, orange_only |-> 0, merged |-> 0, total |-> 0])

(***************************************************************************)
(* merge_sources on two lists of records with a parcel_id and the source   *)
(* tag of their fetcher.                                                   *)
(***************************************************************************)
MergeKeyValues ==
    {Absent, EmptyStr, PyStr(<<" ">>), PyStr(<<"p">>), PyStr(<<"P", " ">>), PyStr(<<"q">>)}

WakeRecords ==
    {MakeRecord([parcel_id |-> p, source |-> PyStr(<<"W">>)]) : p \in MergeKeyValues}
OrangeRecords ==
    {MakeRecord([parcel_id |-> p, source |-> PyStr(<<"O">>)]) : p \in MergeKeyValues}

InitMerge ==
    /\ wake_records \in SeqsUpTo(WakeRecords, MaxSource)
    /\ orange_records \in SeqsUpTo(OrangeRecords, MaxSource)
    /\ records = <<>>
    /\ sim = <<>>
    /\ call = NoCall
    /\ ret = Returned(None)

MergeSources ==
    /\ call = NoCall
    /\ \E key_order \in KeyOrders(all_keys(wake_records, orange_records, "parcel_id")) :
         /\ call' = [op |-> "merge_sources", key_order |-> key_order]
         /\ ret' = merge_sources(wake_records, orange_records, "parcel_id", key_order)
    /\ UNCHANGED <<records, wake_records, orange_records, sim>>

NextMerge == MergeSources

SpecMerge == InitMerge /\ [][NextMerge]_vars


(***************************************************************************)
(* Claims about merge_sources.                                             *)
(***************************************************************************)
MergedSources == call.op = "merge_sources"

\* The record lacks the merge key: key absent, None or the empty string.
LacksKey(record) ==
    \/ "parcel_id" \notin DOMAIN record
    \/ IsNone(record["parcel_id"])
    \/ record["parcel_id"] = EmptyStr

\* The normalized key of a record that has the merge key.
KeyOf(record) == upper(strip(str(record["parcel_id"])))

\* The positions of the records of a source with normalized key k.
WithKey(source, k) ==
    {i \in 1..Len(source) : ~LacksKey(source[i]) /\ KeyOf(source[i]) = k}

SourceKeys(source) ==
    {KeyOf(source[i]) : i \in {n \in 1..Len(source) : ~LacksKey(source[n])}}

Tagged(record) ==
    /\ "is_cross_source_merged" \in DOMAIN record
    /\ record["is_cross_source_merged"] = PyBool(TRUE)

\* C8: merge_sources forms the cross product.  For every normalized key with
\* m >= 1 records in source A and n >= 1 records in source B the output holds
\* exactly m*n records for that key, one per (A record, B record) pair, each
\* tagged is_cross_source_merged = true, and stats['merged'] is the sum of m*n
\* over these keys.
C8_CrossProduct ==
    MergedSources =>
        /\ ~HasRaised(ret)
        /\ LET out == ret.value.merged_records
               pair_record(pr) ==
                   merge_record_pair(wake_records[pr[1]], orange_records[pr[2]], None).value
               all_pairs ==
                   {pr \in (1..Len(wake_records)) \X (1..Len(orange_records)) :
                       /\ ~LacksKey(wake_records[pr[1]])
                       /\ ~LacksKey(orange_records[pr[2]])
                       /\ KeyOf(wake_records[pr[1]]) = KeyOf(orange_records[pr[2]])}
           IN /\ \A k \in SourceKeys(wake_records) \cap SourceKeys(orange_records) :
                    LET pairs == WithKey(wake_records, k) \X WithKey(orange_records, k)
                    IN /\ Cardinality({n \in 1..Len(out) :
                                          \E pr \in pairs : out[n] = pair_record(pr)})
                             = Cardinality(WithKey(wake_records, k))
                                   * Cardinality(WithKey(orange_records, k))
                       /\ \A pr \in pairs :
                             /\ Occurrences(out, pair_record(pr))
                                   = Cardinality({q \in pairs :
                                                     pair_record(q) = pair_record(pr)})
                             /\ Tagged(pair_record(pr))
              /\ Cardinality({n \in 1..Len(out) : Tagged(out[n])}) = Cardinality(all_pairs)
              /\ ret.value.stats.merged = Cardinality(all_pairs)

\* A key with two different records in each source was merged.
C8_Witness ==
    /\ MergedSources
    /\ \E k \in SourceKeys(wake_records) \cap SourceKeys(orange_records) :
          /\ Cardinality({wake_records[i] : i \in WithKey(wake_records, k)}) >= 2
          /\ Cardinality({orange_records[i] : i \in WithKey(orange_records, k)}) >= 2
    /\ ret.value.stats.merged >= 4

\* C9: merge_sources carries through every record that lacks the merge key
\* (key absent, None or empty): it appears in the output, unmerged, so no
\* input record of either source is lost.
C9_AsStated ==
    MergedSources =>
        /\ ~HasRaised(ret)
        /\ \A i \in 1..Len(wake_records) :
              LacksKey(wake_records[i]) =>
                  wake_records[i] \in Range(ret.value.merged_records)
        /\ \A i \in 1..Len(orange_records) :
              LacksKey(orange_records[i]) =>
                  orange_records[i] \in Range(ret.value.merged_records)

\* C10: pass-through.  For a key present only in source A every A record of
\* that key is in the output unchanged, without the is_cross_source_merged tag,
\* and is counted once in wake_only; symmetrically for source B and
\* orange_only; and stats['total'] = wake_only + orange_only + merged, the
\* length of the output list.
C10_PassThrough ==
    MergedSources =>
        /\ ~HasRaised(ret)
        /\ LET out == ret.value.merged_records
               stats == ret.value.stats
               only_wake == {i \in 1..Len(wake_records) :
                                /\ ~LacksKey(wake_records[i])
                                /\ KeyOf(wake_records[i]) \notin SourceKeys(orange_records)}
               only_orange == {i \in 1..Len(orange_records) :
                                  /\ ~LacksKey(orange_records[i])
                                  /\ KeyOf(orange_records[i]) \notin SourceKeys(wake_records)}
           IN /\ \A i \in only_wake :
                    /\ Occurrences(out, wake_records[i])
                          = Occurrences(wake_records, wake_records[i])
                    /\ \A n \in 1..Len(out) :
                          out[n] = wake_records[i] =>
                              "is_cross_source_merged" \notin DOMAIN out[n]
              /\ \A i \in only_orange :
                    /\ Occurrences(out, orange_records[i])
                          = Occurrences(orange_records, orange_records[i])
                    /\ \A n \in 1..Len(out) :
                          out[n] = orange_records[i] =>
                              "is_cross_source_merged" \notin DOMAIN out[n]
              /\ stats.wake_only = Cardinality(only_wake)
              /\ stats.orange_only = Cardinality(only_orange)
              /\ stats.total = stats.wake_only + stats.orange_only + stats.merged
              /\ stats.total = Len(out)

\* A key held by two records of source A only, next to a key of source B only.
C10_Witness ==
    /\ MergedSources
    /\ \E k \in SourceKeys(wake_records) \ SourceKeys(orange_records) :
          Cardinality(WithKey(wake_records, k)) >= 2
    /\ SourceKeys(orange_records) \ SourceKeys(wake_records) # {}
    /\ ret.value.stats.wake_only >= 2
    /\ ret.value.stats.orange_only >= 1

(***************************************************************************)
(* merge_record_pair on two records with a source tag, an owner_name and   *)
(* an assessed_value, with and without a preferred source.                 *)
(***************************************************************************)
PairSources == {Absent, PyStr(<<"W">>), PyStr(<<"O">>)}
PairFieldTexts ==
    {Absent, None, EmptyStr, PyStr(<<" ">>), PyStr(<<"a">>), PyStr(<<"b">>),
     PyStr(<<"a", "b">>)}
PairFieldNumbers == {Absent, PyInt(0), PyInt(5), PyStr(<<"5">>)}
PreferSources == {None, PyStr(<<"W">>), PyStr(<<"O">>), PyStr(<<"X">>)}

MergePairRecords ==
    {MakeRecord([source |-> s, owner_name |-> n, assessed_value |-> v]) :
         s \in PairSources, n \in PairFieldTexts, v \in PairFieldNumbers}

InitPair ==
    /\ records \in [1..2 -> MergePairRecords]
    /\ wake_records = <<>>
    /\ orange_records = <<>>
    /\ sim = <<>>
    /\ call = NoCall
    /\ ret = Returned(None)

MergeRecordPair ==
    /\ call = NoCall
    /\ \E prefer_source \in PreferSources :
         /\ call' = [op |-> "merge_record_pair", prefer_source |-> prefer_source]
         /\ ret' = merge_record_pair(records[1], records[2], prefer_source)
    /\ UNCHANGED <<records, wake_records, orange_records, sim>>

NextPair == MergeRecordPair

SpecPair == InitPair /\ [][NextPair]_vars

\* The value counts as empty: the field is absent or None, or it is a string
\* with nothing but white space.
IsEmptyValue(value) == IsNone(value) \/ (IsStr(value) /\ strip(value.str) = <<>>)

SpecialFields == {"source", "source_url", "extracted_at"}

\* prefer_source is given and is the source tag of the record.
Preferred(record) ==
    /\ ~IsNone(call.prefer_source)
    /\ get(record, "source") = call.prefer_source

\* C11: field-wise reconciliation of a merged pair, for every field other
\* than source, source_url and extracted_at.  Exactly one side non-empty: that
\* value.  Both empty: the empty string.  Both non-empty: the value of the
\* record whose source tag is prefer_source; with no such record the longer of
\* two strings, the first on a tie, and the first record's value when the
\* values are not both strings.
C11_Reconciliation ==
    call.op = "merge_record_pair" =>
        /\ ~HasRaised(ret)
        /\ \A field \in (DOMAIN records[1] \cup DOMAIN records[2]) \ SpecialFields :
              LET value1 == get(records[1], field)
                  value2 == get(records[2], field)
                  result == ret.value[field]
              IN IF IsEmptyValue(value1) /\ IsEmptyValue(value2) THEN result = EmptyStr
                 ELSE IF IsEmptyValue(value2) THEN result = value1
                 ELSE IF IsEmptyValue(value1) THEN result = value2
                 ELSE IF Preferred(records[1]) THEN result = value1
                 ELSE IF Preferred(records[2]) THEN result = value2
                 ELSE IF IsStr(value1) /\ IsStr(value2)
                      THEN IF Len(value2.str) > Len(value1.str) THEN result = value2
                           ELSE result = value1
                 ELSE result = value1

\* With no preferred source two different names of the same length were
\* merged, and a number met a string in assessed_value.
C11_Witness ==
    /\ call.op = "merge_record_pair"
    /\ ~Preferred(records[1]) /\ ~Preferred(records[2])
    /\ ~IsEmptyValue(get(records[1], "owner_name"))
    /\ ~IsEmptyValue(get(records[2], "owner_name"))
    /\ get(records[1], "owner_name") # get(records[2], "owner_name")
    /\ Len(get(records[1], "owner_name").str) = Len(get(records[2], "owner_name").str)
    /\ ret.value["owner_name"] = get(records[1], "owner_name")
    /\ IsInt(get(records[1], "assessed_value"))
    /\ IsStr(get(records[2], "assessed_value"))
    /\ ret.value["assessed_value"] = get(records[1], "assessed_value")

(***************************************************************************)
(* PropertyValidator (src/src/validator.py) with the rules of              *)
(* config/settings.py.  An error message is modelled by its kind and the   *)
(* field it names.                                                         *)
(***************************************************************************)
REQUIRED_FIELDS == <<"owner_name", "property_address", "source", "extracted_at">>

\* FIELD_TYPES, in the order of the dict.
TypedFields ==
    <<"owner_name", "parcel_id", "property_address", "mailing_address", "city",
      "state", "zip_code", "county", "assessed_value", "sale_date", "sale_price",
      "source", "source_url", "extracted_at">>

FIELD_TYPES(field) ==
    IF field \in {"assessed_value", "sale_price"} THEN {"int", "float", "NoneType"}
    ELSE {"str"}

\* isinstance(value, types); a bool is an int.
isinstance(value, types) ==
    \/ IsStr(value) /\ "str" \in types
    \/ IsInt(value) /\ "int" \in types
    \/ IsBool(value) /\ "int" \in types
    \/ IsNone(value) /\ "NoneType" \in types

\* VALIDATION_PATTERNS, in the order of the dict.
PatternFields == <<"zip_code", "parcel_id", "state">>

IsDigit(c) == c \in Range(Digits)

UpperLetters ==
    {"A", "B", "C", "D", "E", "F", "G", "H", "I", "J", "K", "L", "M",
     "N", "O", "P", "Q", "R", "S", "T", "U", "V", "W", "X", "Y", "Z"}

AllChars(s, Ok(_)) == \A i \in 1..Len(s) : Ok(s[i])

\* ^\d{5}(-\d{4})?$
match_zip_code(s) ==
    \/ Len(s) = 5 /\ AllChars(s, IsDigit)
    \/ /\ Len(s) = 10
       /\ AllChars(SubSeq(s, 1, 5), IsDigit)
       /\ s[6] = "-"
       /\ AllChars(SubSeq(s, 7, 10), IsDigit)

\* ^[A-Z0-9\-]+$
match_parcel_id(s) ==
    /\ Len(s) >= 1
    /\ AllChars(s, LAMBDA c : c \in UpperLetters \/ IsDigit(c) \/ c = "-")

\* ^[A-Z]{2}$
match_state(s) == Len(s) = 2 /\ AllChars(s, LAMBDA c : c \in UpperLetters)

pattern_match(field, s) ==
    IF field = "zip_code" THEN match_zip_code(s)
    ELSE IF field = "parcel_id" THEN match_parcel_id(s)
    ELSE match_state(s)

Error(kind, field) == [kind |-> kind, field |-> field]

\* The errors a loop over fields appends, in the order of the fields.
errors_of(fields, check(_)) ==
    Flatten([i \in 1..Len(fields) |-> check(fields[i])])

\* value is None or (isinstance(value, str) and not value.strip())
is_blank(value) == IsNone(value) \/ (IsStr(value) /\ strip(value.str) = <<>>)

\* Mutant of _validate_required_fields: a required field whose value has the
\* wrong type is reported as empty too.
_validate_required_fields_typed(record) ==
    errors_of(REQUIRED_FIELDS,
              LAMBDA field :
                  IF field \notin DOMAIN record THEN <<Error("missing", field)>>
                  ELSE IF is_blank(record[field]) THEN <<Error("empty", field)>>
                  ELSE IF ~isinstance(record[field], FIELD_TYPES(field))
                       THEN <<Error("empty", field)>>
                  ELSE <<>>)

_validate_required_fields(record) ==
    errors_of(REQUIRED_FIELDS,
              LAMBDA field :
                  IF field \notin DOMAIN record THEN <<Error("missing", field)>>
                  ELSE IF is_blank(record[field]) THEN <<Error("empty", field)>>
                  ELSE <<>>)

_validate_field_types(record) ==
    errors_of(TypedFields,
              LAMBDA field :
                  IF field \notin DOMAIN record THEN <<>>
                  ELSE IF IsNone(record[field]) THEN <<>>
                  ELSE IF ~isinstance(record[field], FIELD_TYPES(field))
                       THEN <<Error("type", field)>>
                  ELSE <<>>)

_validate_patterns(record) ==
    errors_of(PatternFields,
              LAMBDA field :
                  IF field \notin DOMAIN record THEN <<>>
                  ELSE IF is_blank(record[field]) THEN <<>>
                  ELSE IF ~pattern_match(field, strip(str(record[field])))
                       THEN <<Error("pattern", field)>>
                  ELSE <<>>)

\* Mutant of validation_result: validity is len(errors) == 0 in both modes.
validation_result_always_strict(strict, required_errors, type_errors, pattern_errors) ==
    IF (strict \/ required_errors # <<>>) /\ required_errors # <<>>
    THEN [is_valid |-> FALSE, errors |-> required_errors]
    ELSE [is_valid |-> required_errors \o type_errors \o pattern_errors = <<>>,
          errors |-> required_errors \o type_errors \o pattern_errors]

\* validate_record once the three checks are known: the early return on
\* required errors, then the validity rule of the mode.
validation_result(strict, required_errors, type_errors, pattern_errors) ==
    IF (strict \/ required_errors # <<>>) /\ required_errors # <<>>
    THEN [is_valid |-> FALSE, errors |-> required_errors]
    ELSE [is_valid |-> IF strict
                       THEN required_errors \o type_errors \o pattern_errors = <<>>
                       ELSE required_errors = <<>>,
          errors |-> required_errors \o type_errors \o pattern_errors]

validate_record(record, strict) ==
    validation_result(strict, _validate_required_fields(record),
                      _validate_field_types(record), _validate_patterns(record))

(***************************************************************************)
(* validate_record on one record, in both modes.                           *)
(***************************************************************************)
ValidOwnerNames == {Absent, None, PyStr(<<" ">>), PyStr(<<"a">>), PyInt(5)}
ValidAddresses == {Absent, PyStr(<<"x">>)}
ValidZipCodes ==
    {Absent, PyStr(<<"1", "2", "3", "4", "5">>), PyStr(<<"1", "2", "3", "4">>),
     PyStr(<<"1", "2", "3", "4", "5", "-", "6", "7", "8", "9">>),
     PyStr(<<"1", "2", "3", "4", "5", "-", "6">>)}
ValidAssessedValues == {Absent, None, PyInt(5), PyStr(<<"5">>), PyBool(TRUE)}

ValidateRecords ==
    {MakeRecord([owner_name |-> n, property_address |-> a, source |-> PyStr(<<"W">>),
                 extracted_at |-> PyStr(<<"t">>), zip_code |-> z, assessed_value |-> v]) :
         n \in ValidOwnerNames, a \in ValidAddresses, z \in ValidZipCodes,
         v \in ValidAssessedValues}

InitValidate ==
    /\ records \in [1..1 -> ValidateRecords]
    /\ wake_records = <<>>
    /\ orange_records = <<>>
    /\ sim = <<>>
    /\ call = NoCall
    /\ ret = Returned(None)

ValidateRecord ==
    /\ call = NoCall
    /\ \E strict \in BOOLEAN :
         /\ call' = [op |-> "validate_record", strict |-> strict]
         /\ ret' = Returned(validate_record(records[1], strict))
    /\ UNCHANGED <<records, wake_records, orange_records, sim>>

NextValidate == ValidateRecord

SpecValidate == InitValidate /\ [][NextValidate]_vars

(***************************************************************************)
(* Claims about validate_record.                                           *)
(***************************************************************************)
RequiredFieldNames == {"owner_name", "property_address", "source", "extracted_at"}

\* The required field is missing from the record, None or a blank string.
RequiredViolation(record, field) ==
    \/ field \notin DOMAIN record
    \/ IsNone(record[field])
    \/ IsStr(record[field]) /\ strip(record[field].str) = <<>>

\* The field holds a value that is not None and not of the field's type.
TypeViolation(record, field) ==
    /\ field \in DOMAIN record
    /\ ~IsNone(record[field])
    /\ ~isinstance(record[field], FIELD_TYPES(field))

\* The field holds a non-blank value that does not match the field's pattern.
PatternViolation(record, field) ==
    /\ field \in DOMAIN record
    /\ ~RequiredViolation(record, field)
    /\ ~pattern_match(field, strip(str(record[field])))

HasRequiredViolation(record) ==
    \E field \in RequiredFieldNames : RequiredViolation(record, field)

HasTypeViolation(record) ==
    \E field \in Range(TypedFields) : TypeViolation(record, field)

HasPatternViolation(record) ==
    \E field \in Range(PatternFields) : PatternViolation(record, field)

ValidatedRecord == call.op = "validate_record"

\* C12: the validity rule of validate_record.  In strict mode is_valid is
\* true exactly when the record has no required-field, type or pattern
\* error.  In non-strict mode is_valid is true exactly when the record has no
\* required-field error; its type and pattern violations are then in the
\* error list and do not reject it.
C12_ValidityRule ==
    ValidatedRecord =>
        LET record == records[1]
            result == ret.value
        IN IF call.strict
           THEN result.is_valid <=>
                    /\ ~HasRequiredViolation(record)
                    /\ ~HasTypeViolation(record)
                    /\ ~HasPatternViolation(record)
           ELSE /\ result.is_valid <=> ~HasRequiredViolation(record)
                /\ result.is_valid =>
                      /\ \A field \in Range(TypedFields) :
                            TypeViolation(record, field)
                                <=> Error("type", field) \in Range(result.errors)
                      /\ \A field \in Range(PatternFields) :
                            PatternViolation(record, field)
                                <=> Error("pattern", field) \in Range(result.errors)

\* A record with a type and a pattern violation and no required-field error
\* was validated in non-strict mode: valid, with both errors listed.
C12_Witness ==
    /\ ValidatedRecord
    /\ ~call.strict
    /\ HasTypeViolation(records[1])
    /\ HasPatternViolation(records[1])
    /\ ret.value.is_valid
    /\ Len(ret.value.errors) >= 2

\* C13 as stated: in non-strict mode a type mismatch on a field that is not
\* required is recorded and leaves is_valid true, and a type mismatch on a
\* required field makes is_valid false.
C13_AsStated ==
    (ValidatedRecord /\ ~call.strict) =>
        \A field \in Range(TypedFields) :
            TypeViolation(records[1], field) =>
                IF field \in RequiredFieldNames THEN ~ret.value.is_valid
                ELSE ~HasRequiredViolation(records[1]) =>
                         /\ ret.value.is_valid
                         /\ Error("type", field) \in Range(ret.value.errors)

\* C13: in non-strict mode, on a record whose required fields are all present
\* and non-empty, every type mismatch is recorded as an error and is_valid
\* stays true, whether the mismatching field is required or not; when a
\* required field is missing or empty is_valid is false and no type error is
\* recorded.
C13_TypeMismatch ==
    (ValidatedRecord /\ ~call.strict) =>
        IF HasRequiredViolation(records[1])
        THEN /\ ~ret.value.is_valid
             /\ \A field \in Range(TypedFields) :
                   Error("type", field) \notin Range(ret.value.errors)
        ELSE /\ ret.value.is_valid
             /\ \A field \in Range(TypedFields) :
                   TypeViolation(records[1], field) =>
                       Error("type", field) \in Range(ret.value.errors)

\* A numeric owner_name was validated in non-strict mode: the type error is
\* listed and the record is valid.
C13_Witness ==
    /\ ValidatedRecord
    /\ ~call.strict
    /\ TypeViolation(records[1], "owner_name")
    /\ Error("type", "owner_name") \in Range(ret.value.errors)
    /\ ret.value.is_valid

(***************************************************************************)
(* validate_batch.  Positions are counted from 0, as enumerate does.       *)
(* visited is the number of records the loop has validated.                *)
(***************************************************************************)
\* Mutant of batch_loop: stop_on_error is ignored.
RECURSIVE batch_loop_no_break(_, _, _, _, _, _)
batch_loop_no_break(recs, strict, stop_on_error, idx, valid_records, invalid_records) ==
    IF idx >= Len(recs)
    THEN [valid_records |-> valid_records, invalid_records |-> invalid_records,
          visited |-> idx]
    ELSE IF validate_record(recs[idx + 1], strict).is_valid
         THEN batch_loop_no_break(recs, strict, stop_on_error, idx + 1,
                                  Append(valid_records, recs[idx + 1]), invalid_records)
    ELSE batch_loop_no_break(recs, strict, stop_on_error, idx + 1, valid_records,
                             Append(invalid_records,
                                    [index |-> idx, record |-> recs[idx + 1],
                                     errors |-> validate_record(recs[idx + 1], strict).errors]))

\* for idx, record in enumerate(records): ...
RECURSIVE batch_loop(_, _, _, _, _, _)
batch_loop(recs, strict, stop_on_error, idx, valid_records, invalid_records) ==
    IF idx >= Len(recs)
    THEN [valid_records |-> valid_records, invalid_records |-> invalid_records,
          visited |-> idx]
    ELSE IF validate_record(recs[idx + 1], strict).is_valid
         THEN batch_loop(recs, strict, stop_on_error, idx + 1,
                         Append(valid_records, recs[idx + 1]), invalid_records)
    ELSE IF stop_on_error
         THEN [valid_records |-> valid_records,
               invalid_records |->
                   Append(invalid_records,
                          [index |-> idx, record |-> recs[idx + 1],
                           errors |-> validate_record(recs[idx + 1], strict).errors]),
               visited |-> idx + 1]
    ELSE batch_loop(recs, strict, stop_on_error, idx + 1, valid_records,
                    Append(invalid_records,
                           [index |-> idx, record |-> recs[idx + 1],
                            errors |-> validate_record(recs[idx + 1], strict).errors]))

validate_batch(recs, strict, stop_on_error) ==
    batch_loop(recs, strict, stop_on_error, 0, <<>>, <<>>)

BatchOwnerNames == {Absent, PyStr(<<"a">>), PyInt(5)}
BatchZipCodes == {Absent, PyStr(<<"1", "2", "3", "4">>)}

BatchRecords ==
    {MakeRecord([owner_name |-> n, property_address |-> PyStr(<<"x">>),
                 source |-> PyStr(<<"W">>), extracted_at |-> PyStr(<<"t">>),
                 zip_code |-> z]) :
         n \in BatchOwnerNames, z \in BatchZipCodes}

InitBatch ==
    /\ records \in SeqsUpTo(BatchRecords, MaxRecords)
    /\ wake_records = <<>>
    /\ orange_records = <<>>
    /\ sim = <<>>
    /\ call = NoCall
    /\ ret = Returned(None)

ValidateBatch ==
    /\ call = NoCall
    /\ \E strict \in BOOLEAN, stop_on_error \in BOOLEAN :
         /\ call' = [op |-> "validate_batch", strict |-> strict,
                     stop_on_error |-> stop_on_error]
         /\ ret' = Returned(validate_batch(records, strict, stop_on_error))
    /\ UNCHANGED <<records, wake_records, orange_records, sim>>

NextBatch == ValidateBatch

SpecBatch == InitBatch /\ [][NextBatch]_vars

\* validate_record rejects the record in the mode of the call.
Rejected(record) ==
    IF call.strict
    THEN HasRequiredViolation(record) \/ HasTypeViolation(record)
             \/ HasPatternViolation(record)
    ELSE HasRequiredViolation(record)

\* The positions (from 0) of the rejected records of the input.
RejectedPositions == {i \in 0..(Len(records) - 1) : Rejected(records[i + 1])}

\* The invalid entry of the record at position i.
InvalidEntry(i) ==
    [index |-> i, record |-> records[i + 1],
     errors |-> validate_record(records[i + 1], call.strict).errors]

\* C14: validate_batch.  Without stop_on_error the valid list holds the
\* accepted records in input order, the invalid list one entry (index, record,
\* errors) per rejected record with index its position in the input, and the
\* two lengths add up to len(records).  With stop_on_error the loop ends at
\* the first rejected record: the invalid list holds that entry only, the
\* valid list the records before it, and no later record is validated.
C14_BatchSplit ==
    call.op = "validate_batch" =>
        LET result == ret.value
            accepted == (0..(Len(records) - 1)) \ RejectedPositions
            first == CHOOSE i \in RejectedPositions : \A j \in RejectedPositions : i <= j
        IN IF ~call.stop_on_error
           THEN /\ result.valid_records
                      = [k \in 1..Cardinality(accepted) |-> records[SortedSeq(accepted)[k] + 1]]
                /\ result.invalid_records
                      = [k \in 1..Cardinality(RejectedPositions) |->
                            InvalidEntry(SortedSeq(RejectedPositions)[k])]
                /\ Len(result.valid_records) + Len(result.invalid_records) = Len(records)
                /\ result.visited = Len(records)
           ELSE /\ Len(result.invalid_records) <= 1
                /\ IF RejectedPositions = {}
                   THEN /\ result.valid_records = records
                        /\ result.invalid_records = <<>>
                   ELSE /\ result.invalid_records = <<InvalidEntry(first)>>
                        /\ result.valid_records = SubSeq(records, 1, first)
                        /\ result.visited = first + 1

\* With stop_on_error a batch of three stopped at its second record.
C14_Witness ==
    /\ call.op = "validate_batch"
    /\ call.stop_on_error
    /\ Len(records) = 3
    /\ Len(ret.value.valid_records) = 1
    /\ Len(ret.value.invalid_records) = 1
    /\ ret.value.invalid_records[1].index = 1
    /\ ret.value.visited = 2

(***************************************************************************)
(* PropertyCleaner (src/src/cleaner.py).  White space is the blank.        *)
(***************************************************************************)
MaxNameLen == 5
MaxZipLen == 9
MaxNoisyZipLen == 5

\* The strings over an alphabet with at most n characters.
StringsUpTo(alphabet, n) == UNION {[1..k -> alphabet] : k \in 0..n}

\* str.lower()
lower(s) == [i \in 1..Len(s) |-> lower_char(s[i])]

\* str.split(): the maximal runs of characters that are not white space.
RECURSIVE split_from(_, _, _)
split_from(s, i, word) ==
    IF i > Len(s) THEN (IF word = <<>> THEN <<>> ELSE <<word>>)
    ELSE IF IsSpace(s[i])
         THEN (IF word = <<>> THEN <<>> ELSE <<word>>) \o split_from(s, i + 1, <<>>)
    ELSE split_from(s, i + 1, Append(word, s[i]))

split(s) == split_from(s, 1, <<>>)

\* " ".join(name.split())
collapse_spaces(s) == join(<<" ">>, split(s))

\* sub in s
contains(s, sub) ==
    \E i \in 1..(Len(s) - Len(sub) + 1) : SubSeq(s, i, i + Len(sub) - 1) = sub

\* s.index(c)
index_of(s, c) == CHOOSE i \in 1..Len(s) : s[i] = c /\ \A j \in 1..(i - 1) : s[j] # c

\* The suffixes _convert_last_first_format looks for.
CompanyMarks ==
    <<<<"L", "L", "C">>, <<"C", "O", "R", "P">>, <<"I", "N", "C">>,
      <<"T", "R", "U", "S", "T">>, <<"L", "P">>, <<"L", "L", "P">>>>

\* any(suffix in name.upper() for suffix in [...])
has_company_mark(name) ==
    \E k \in 1..Len(CompanyMarks) : contains(upper(name), CompanyMarks[k])

\* parts = name.split(",", 1); f"{first_name} {last_name}"
swap_at_comma(name, k) ==
    strip(SubSeq(name, k + 1, Len(name))) \o <<" ">> \o strip(SubSeq(name, 1, k - 1))

_convert_last_first_format(name) ==
    IF "," \in Range(name)
    THEN IF ~has_company_mark(name) THEN swap_at_comma(name, index_of(name, ","))
         ELSE name
    ELSE name

\* NAME_NORMALIZATION["entity_suffixes"]
entity_suffixes ==
    <<<<"L", "L", "C">>, <<"C", "O", "R", "P">>, <<"I", "N", "C">>,
      <<"T", "R", "U", "S", "T">>, <<"L", "P">>, <<"L", "L", "P">>, <<"C", "O">>>>

\* \w
IsWordChar(c) == IsLower(c) \/ IsUpper(c) \/ c \in Range(Digits) \/ c = "_"

\* \b between s[i] and s[i + 1]; outside the string there is no word character.
word_boundary(s, i) ==
    (i >= 1 /\ i <= Len(s) /\ IsWordChar(s[i]))
        # (i + 1 >= 1 /\ i + 1 <= Len(s) /\ IsWordChar(s[i + 1]))

\* \b literal \b matches s at position i.
matches_at(s, literal, i) ==
    /\ i + Len(literal) - 1 <= Len(s)
    /\ SubSeq(s, i, i + Len(literal) - 1) = literal
    /\ word_boundary(s, i - 1)
    /\ word_boundary(s, i + Len(literal) - 1)

\* re.search(pattern, s)
re_search(s, literal) == \E i \in 1..Len(s) : matches_at(s, literal, i)

\* re.sub(pattern, repl, s): the matches are replaced from left to right.
RECURSIVE re_sub(_, _, _, _)
re_sub(s, literal, repl, i) ==
    IF i > Len(s) THEN <<>>
    ELSE IF matches_at(s, literal, i)
         THEN repl \o re_sub(s, literal, repl, i + Len(literal))
    ELSE <<s[i]>> \o re_sub(s, literal, repl, i + 1)

\* "".join(c + "." for c in suffix)
dotted(suffix) == Flatten([i \in 1..Len(suffix) |-> <<suffix[i], ".">>])

\* " ".join(suffix)
spaced(suffix) == join(<<" ">>, [i \in 1..Len(suffix) |-> <<suffix[i]>>])

\* The inner loop over the three patterns of one suffix: the first pattern
\* found in name_upper is replaced in name_upper.
replace_suffix(name, name_upper, suffix) ==
    IF re_search(name_upper, suffix) THEN re_sub(name_upper, suffix, suffix, 1)
    ELSE IF re_search(name_upper, dotted(suffix))
         THEN re_sub(name_upper, dotted(suffix), suffix, 1)
    ELSE IF re_search(name_upper, spaced(suffix))
         THEN re_sub(name_upper, spaced(suffix), suffix, 1)
    ELSE name

RECURSIVE suffix_loop(_, _, _)
suffix_loop(name, name_upper, suffixes) ==
    IF suffixes = <<>> THEN name
    ELSE suffix_loop(replace_suffix(name, name_upper, Head(suffixes)), name_upper,
                     Tail(suffixes))

_normalize_entity_suffix(name) == suffix_loop(name, upper(name), entity_suffixes)

\* str.isupper(): there is a letter and no letter is lowercase.
isupper(word) ==
    /\ \E i \in 1..Len(word) : IsUpper(word[i])
    /\ \A i \in 1..Len(word) : ~IsLower(word[i])

\* str.title(): a letter after a letter is lowercased, any other letter
\* uppercased.
title(word) ==
    [i \in 1..Len(word) |->
        IF i > 1 /\ (IsLower(word[i - 1]) \/ IsUpper(word[i - 1]))
        THEN lower_char(word[i]) ELSE upper_char(word[i])]

\* entity_suffixes + ["LLC", "LP", "LLP"]
uppercase_words == Range(entity_suffixes)

title_word(word) ==
    IF upper(word) \in uppercase_words THEN upper(word)
    ELSE IF Len(word) <= 3 /\ isupper(word) THEN word
    ELSE title(word)

title_words(words) == [i \in 1..Len(words) |-> title_word(words[i])]

_to_title_case(name) == join(<<" ">>, title_words(split(name)))

normalize_owner_name(name) ==
    IF ~Truthy(name) \/ ~IsStr(name) THEN EmptyStr
    ELSE PyStr(strip(collapse_spaces(_to_title_case(_normalize_entity_suffix(
             _convert_last_first_format(collapse_spaces(name.str)))))))

(***************************************************************************)
(* normalize_owner_name applied to a name, and again to its own result.    *)
(***************************************************************************)
NameAlphabet == {"a", "l", "p", "L", "P", ",", " "}

OwnerNameInputs ==
    {PyStr(name) : name \in StringsUpTo(NameAlphabet, MaxNameLen)} \cup {None, PyInt(5)}

InitName ==
    /\ records \in {<<[owner_name |-> name]>> : name \in OwnerNameInputs}
    /\ wake_records = <<>>
    /\ orange_records = <<>>
    /\ sim = <<>>
    /\ call = NoCall
    /\ ret = Returned(None)

\* The first call takes the name of the record, the second the result of
\* the first.
NormalizeOwnerName ==
    \/ /\ call = NoCall
       /\ call' = [op |-> "normalize_owner_name", times |-> 1,
                   name |-> records[1].owner_name]
       /\ ret' = Returned(normalize_owner_name(records[1].owner_name))
       /\ UNCHANGED <<records, wake_records, orange_records, sim>>
    \/ /\ call.op = "normalize_owner_name"
       /\ call.times = 1
       /\ call' = [op |-> "normalize_owner_name", times |-> 2, name |-> ret.value]
       /\ ret' = Returned(normalize_owner_name(ret.value))
       /\ UNCHANGED <<records, wake_records, orange_records, sim>>

NextName == NormalizeOwnerName

SpecName == InitName /\ [][NextName]_vars

\* C15: owner-name normalization is idempotent.  Normalizing the result of
\* normalize_owner_name gives that result again, for every input string.
C15_AsStated ==
    (call.op = "normalize_owner_name" /\ call.times = 2) => ret.value = call.name

\* One of the suffix tokens LLC, CORP, INC, TRUST, LP, LLP is a whole word of
\* the name.
HasSuffixToken(name) ==
    \E k \in 1..Len(CompanyMarks) : re_search(upper(name), CompanyMarks[k])

\* What the later steps of the normalization make of a name.
Finished(name) ==
    PyStr(strip(collapse_spaces(_to_title_case(_normalize_entity_suffix(name)))))

\* C16: a name with a comma and without a suffix token (LLC, CORP, INC, TRUST,
\* LP, LLP as a whole word) is read as "LAST, FIRST" and rewritten to the text
\* after the first comma followed by the text before it; a name with such a
\* token is not reordered.
C16_AsStated ==
    (call.op = "normalize_owner_name" /\ call.times = 1 /\ IsStr(call.name)
        /\ "," \in Range(call.name.str)) =>
        LET name == collapse_spaces(call.name.str)
        IN IF HasSuffixToken(name)
           THEN ret.value = Finished(name)
           ELSE ret.value = Finished(swap_at_comma(name, index_of(name, ",")))

(***************************************************************************)
(* normalize_zip_code.  A function that ends without a return statement    *)
(* returns None.                                                           *)
(***************************************************************************)
\* re.sub(r'[^\d-]', '', zip_code)
digits_and_hyphens(s) == SelectSeq(s, LAMBDA c : IsDigit(c) \/ c = "-")

\* str.strip('-')
RECURSIVE lstrip_hyphens(_)
lstrip_hyphens(s) ==
    IF s = <<>> THEN s
    ELSE IF Head(s) = "-" THEN lstrip_hyphens(Tail(s))
    ELSE s

RECURSIVE rstrip_hyphens(_)
rstrip_hyphens(s) ==
    IF s = <<>> THEN s
    ELSE IF s[Len(s)] = "-" THEN rstrip_hyphens(SubSeq(s, 1, Len(s) - 1))
    ELSE s

strip_hyphens(s) == rstrip_hyphens(lstrip_hyphens(s))

\* str.zfill(width), for a string without a sign
RECURSIVE zfill(_, _)
zfill(s, width) == IF Len(s) >= width THEN s ELSE zfill(<<"0">> \o s, width)

\* str.ljust(width, '0')
RECURSIVE ljust0(_, _)
ljust0(s, width) == IF Len(s) >= width THEN s ELSE ljust0(Append(s, "0"), width)

\* s[:n]
prefix(s, n) == SubSeq(s, 1, IF Len(s) < n THEN Len(s) ELSE n)

hyphens(s) == Cardinality({i \in 1..Len(s) : s[i] = "-"})

\* The branches of normalize_zip_code on the cleaned text.  With a hyphen and
\* other than two parts no branch returns.
zip_branches(zip_code) ==
    IF "-" \in Range(zip_code)
    THEN IF hyphens(zip_code) + 1 = 2
         THEN PyStr(zfill(SubSeq(zip_code, 1, index_of(zip_code, "-") - 1), 5)
                    \o <<"-">>
                    \o ljust0(prefix(SubSeq(zip_code, index_of(zip_code, "-") + 1,
                                            Len(zip_code)), 4), 4))
         ELSE None
    ELSE IF Len(zip_code) = 9
         THEN PyStr(SubSeq(zip_code, 1, 5) \o <<"-">> \o SubSeq(zip_code, 6, 9))
    ELSE IF Len(zip_code) <= 5 THEN PyStr(zfill(zip_code, 5))
    ELSE PyStr(prefix(zip_code, 5))

normalize_zip_code(zip_code) ==
    IF ~Truthy(zip_code) \/ ~IsStr(zip_code) THEN EmptyStr
    ELSE zip_branches(strip_hyphens(digits_and_hyphens(zip_code.str)))

ZipInputs ==
    {PyStr(z) : z \in StringsUpTo({"1", "2", "-"}, MaxZipLen)}
        \cup {PyStr(z) : z \in StringsUpTo({"1", "-", "a", " "}, MaxNoisyZipLen)}
        \cup {None, PyInt(5)}

InitZip ==
    /\ records \in {<<[zip_code |-> z]>> : z \in ZipInputs}
    /\ wake_records = <<>>
    /\ orange_records = <<>>
    /\ sim = <<>>
    /\ call = NoCall
    /\ ret = Returned(None)

NormalizeZipCode ==
    /\ call = NoCall
    /\ call' = [op |-> "normalize_zip_code"]
    /\ ret' = Returned(normalize_zip_code(records[1].zip_code))
    /\ UNCHANGED <<records, wake_records, orange_records, sim>>

NextZip == NormalizeZipCode

SpecZip == InitZip /\ [][NextZip]_vars

\* The text is empty, five digits, or five digits, a hyphen and four digits.
IsZipFormat(s) ==
    \/ s = <<>>
    \/ Len(s) = 5 /\ \A i \in 1..5 : IsDigit(s[i])
    \/ /\ Len(s) = 10
       /\ s[6] = "-"
       /\ \A i \in (1..5) \cup (7..10) : IsDigit(s[i])

\* C17: for every string input normalize_zip_code returns the empty string,
\* exactly 5 digits, or 5 digits followed by a hyphen and 4 digits.
C17_AsStated ==
    (call.op = "normalize_zip_code" /\ IsStr(records[1].zip_code)) =>
        /\ IsStr(ret.value)
        /\ IsZipFormat(ret.value.str)

(***************************************************************************)
(* The other normalizers of PropertyCleaner, clean_record and clean_batch. *)
(***************************************************************************)
\* ADDRESS_NORMALIZATION["street_abbreviations"], in the order of the dict.
street_abbreviations ==
    << <<<<"S", "T", "R", "E", "E", "T">>, <<"S", "T">>>>,
       <<<<"A", "V", "E", "N", "U", "E">>, <<"A", "V", "E">>>>,
       <<<<"B", "O", "U", "L", "E", "V", "A", "R", "D">>, <<"B", "L", "V", "D">>>>,
       <<<<"D", "R", "I", "V", "E">>, <<"D", "R">>>>,
       <<<<"R", "O", "A", "D">>, <<"R", "D">>>>,
       <<<<"L", "A", "N", "E">>, <<"L", "N">>>>,
       <<<<"C", "O", "U", "R", "T">>, <<"C", "T">>>>,
       <<<<"C", "I", "R", "C", "L", "E">>, <<"C", "I", "R">>>>,
       <<<<"P", "L", "A", "C", "E">>, <<"P", "L">>>>,
       <<<<"N", "O", "R", "T", "H">>, <<"N">>>>,
       <<<<"S", "O", "U", "T", "H">>, <<"S">>>>,
       <<<<"E", "A", "S", "T">>, <<"E">>>>,
       <<<<"W", "E", "S", "T">>, <<"W">>>> >>

\* re.sub(pattern, repl, s, flags=re.IGNORECASE): the match ignores case.
RECURSIVE re_sub_ignorecase(_, _, _, _)
re_sub_ignorecase(s, literal, repl, i) ==
    IF i > Len(s) THEN <<>>
    ELSE IF matches_at(upper(s), literal, i)
         THEN repl \o re_sub_ignorecase(s, literal, repl, i + Len(literal))
    ELSE <<s[i]>> \o re_sub_ignorecase(s, literal, repl, i + 1)

RECURSIVE abbreviation_loop(_, _)
abbreviation_loop(address, abbreviations) ==
    IF abbreviations = <<>> THEN address
    ELSE abbreviation_loop(re_sub_ignorecase(address, Head(abbreviations)[1],
                                             Head(abbreviations)[2], 1),
                           Tail(abbreviations))

_standardize_street_abbreviations(address) ==
    abbreviation_loop(address, street_abbreviations)

normalize_address(address) ==
    IF ~Truthy(address) \/ ~IsStr(address) THEN EmptyStr
    ELSE PyStr(strip(collapse_spaces(_standardize_street_abbreviations(
             upper(collapse_spaces(address.str))))))

normalize_city(city) ==
    IF ~Truthy(city) \/ ~IsStr(city) THEN EmptyStr
    ELSE PyStr(strip(title(collapse_spaces(city.str))))

state_abbrev_map ==
    << <<<<"N", "O", "R", "T", "H", " ", "C", "A", "R", "O", "L", "I", "N", "A">>,
         <<"N", "C">>>>,
       <<<<"S", "O", "U", "T", "H", " ", "C", "A", "R", "O", "L", "I", "N", "A">>,
         <<"S", "C">>>>,
       <<<<"V", "I", "R", "G", "I", "N", "I", "A">>, <<"V", "A">>>>,
       <<<<"G", "E", "O", "R", "G", "I", "A">>, <<"G", "A">>>>,
       <<<<"T", "E", "N", "N", "E", "S", "S", "E", "E">>, <<"T", "N">>>> >>

\* state_abbrev_map[state] if state in state_abbrev_map, else state
abbreviate_state(state) ==
    IF \E k \in 1..Len(state_abbrev_map) : state_abbrev_map[k][1] = state
    THEN state_abbrev_map[CHOOSE k \in 1..Len(state_abbrev_map) :
                              state_abbrev_map[k][1] = state][2]
    ELSE state

normalize_state(state) ==
    IF ~Truthy(state) \/ ~IsStr(state) THEN EmptyStr
    ELSE PyStr(prefix(abbreviate_state(upper(strip(state.str))), 2))

\* A list may hold a value that is not a dict; record.copy() then raises
\* AttributeError.  Of the model's values the tagged ones are not dicts.
IsDict(record) == ~(IsNone(record) \/ IsStr(record) \/ IsInt(record) \/ IsBool(record))

clean_field(field, value) ==
    IF field = "owner_name" THEN normalize_owner_name(value)
    ELSE IF field \in {"property_address", "mailing_address"} THEN normalize_address(value)
    ELSE IF field = "city" THEN normalize_city(value)
    ELSE IF field = "state" THEN normalize_state(value)
    ELSE IF field = "zip_code" THEN normalize_zip_code(value)
    ELSE value

clean_record(record) ==
    IF ~IsDict(record) THEN Raised("AttributeError")
    ELSE Returned([field \in DOMAIN record |-> clean_field(field, record[field])])

\* Mutant of clean_batch: a record whose cleaning fails is left out.
clean_batch_dropping(recs) ==
    SelectSeq([i \in 1..Len(recs) |-> IF HasRaised(clean_record(recs[i])) THEN None
                                      ELSE clean_record(recs[i]).value],
              LAMBDA r : ~IsNone(r))

\* try: cleaned_records.append(self.clean_record(record))
\* except Exception: cleaned_records.append(record)
clean_batch(recs) ==
    [i \in 1..Len(recs) |-> IF HasRaised(clean_record(recs[i])) THEN recs[i]
                            ELSE clean_record(recs[i]).value]

(***************************************************************************)
(* PropertyEnricher (src/src/enricher.py).                                 *)
(***************************************************************************)
\* QUALITY_SCORE_WEIGHTS, in the order of the dict.
WeightedFields ==
    <<"owner_name", "parcel_id", "property_address", "mailing_address", "city",
      "state", "zip_code", "county", "assessed_value", "sale_date", "sale_price">>

score_weights(field) ==
    CASE field = "owner_name" -> 20
      [] field \in {"parcel_id", "property_address"} -> 15
      [] field \in {"mailing_address", "assessed_value"} -> 10
      [] OTHER -> 5

high_quality == 80
medium_quality == 50

\* value == 0 for an int, a float or a bool (False == 0).
is_numeric_zero(value) ==
    \/ IsInt(value) /\ value.int = 0
    \/ IsFloat(value) /\ value.float100 = 0
    \/ IsBool(value) /\ ~value.bool

\* Mutant of _has_value: a zero assessed_value or sale_price counts as a value.
_has_value_with_zero(record, field) ==
    IF field \notin DOMAIN record THEN FALSE
    ELSE IF IsNone(record[field]) THEN FALSE
    ELSE IF IsStr(record[field]) /\ strip(record[field].str) = <<>> THEN FALSE
    ELSE TRUE

_has_value(record, field) ==
    IF field \notin DOMAIN record THEN FALSE
    ELSE IF IsNone(record[field]) THEN FALSE
    ELSE IF IsStr(record[field]) /\ strip(record[field].str) = <<>> THEN FALSE
    ELSE IF field \in {"assessed_value", "sale_price"} /\ is_numeric_zero(record[field])
         THEN FALSE
    ELSE TRUE

\* total_score after the loop over the weights.
RECURSIVE total_score(_, _)
total_score(record, fields) ==
    IF fields = <<>> THEN 0
    ELSE (IF _has_value(record, Head(fields)) THEN score_weights(Head(fields)) ELSE 0)
             + total_score(record, Tail(fields))

\* max(0.0, min(100.0, total_score))
clamp(score) == IF score < 0 THEN 0 ELSE IF score > 100 THEN 100 ELSE score

calculate_quality_score(record) == PyFloat(100 * clamp(total_score(record, WeightedFields)))

get_quality_level(quality_score) ==
    IF quality_score.float100 >= 100 * high_quality THEN PyStr(<<"H", "i", "g", "h">>)
    ELSE IF quality_score.float100 >= 100 * medium_quality
         THEN PyStr(<<"M", "e", "d", "i", "u", "m">>)
    ELSE PyStr(<<"L", "o", "w">>)

filled_fields(record) ==
    Cardinality({i \in 1..Len(WeightedFields) : _has_value(record, WeightedFields[i])})

\* round((filled_fields / total_fields) * 100, 2)
calculate_completeness(record) ==
    PyFloat((2 * 10000 * filled_fields(record) + Len(WeightedFields))
                \div (2 * Len(WeightedFields)))

\* now: what datetime.now().isoformat() returns at the call.
enrich_record(record, now) ==
    IF ~IsDict(record) THEN Raised("AttributeError")
    ELSE Returned([field \in DOMAIN record
                      \cup {"quality_score", "quality_level", "completeness_percent",
                            "enriched_at"} |->
                      IF field = "quality_score" THEN calculate_quality_score(record)
                      ELSE IF field = "quality_level"
                           THEN get_quality_level(calculate_quality_score(record))
                      ELSE IF field = "completeness_percent"
                           THEN calculate_completeness(record)
                      ELSE IF field = "enriched_at" THEN now
                      ELSE record[field]])

\* nows[i]: the clock when record i is enriched.
enrich_batch(recs, nows) ==
    [i \in 1..Len(recs) |-> IF HasRaised(enrich_record(recs[i], nows[i])) THEN recs[i]
                            ELSE enrich_record(recs[i], nows[i]).value]

(***************************************************************************)
(* clean_batch and enrich_batch on lists that may hold a value that is not *)
(* a dict.                                                                 *)
(***************************************************************************)
IsolateOwnerNames == {Absent, PyStr(<<"b", ",", "a">>), PyInt(5)}
IsolateZipCodes == {Absent, PyStr(<<"1", "2">>), PyStr(<<"1", "-", "1", "-", "1">>)}

IsolateRecords ==
    {MakeRecord([owner_name |-> n, zip_code |-> z]) :
         n \in IsolateOwnerNames, z \in IsolateZipCodes} \cup {None}

Timestamps == {PyStr(<<"t", "1">>), PyStr(<<"t", "2">>)}

InitIsolate ==
    /\ records \in SeqsUpTo(IsolateRecords, MaxRecords)
    /\ wake_records = <<>>
    /\ orange_records = <<>>
    /\ sim = <<>>
    /\ call = NoCall
    /\ ret = Returned(None)

CleanBatch ==
    /\ call = NoCall
    /\ call' = [op |-> "clean_batch"]
    /\ ret' = Returned(clean_batch(records))
    /\ UNCHANGED <<records, wake_records, orange_records, sim>>

EnrichBatch ==
    /\ call = NoCall
    /\ \E nows \in [1..Len(records) -> Timestamps] :
         /\ call' = [op |-> "enrich_batch", nows |-> nows]
         /\ ret' = Returned(enrich_batch(records, nows))
    /\ UNCHANGED <<records, wake_records, orange_records, sim>>

NextIsolate == CleanBatch \/ EnrichBatch

SpecIsolate == InitIsolate /\ [][NextIsolate]_vars

\* What processing the record at position i gives: the record it returns, or
\* that it failed.
Processed(i) ==
    IF call.op = "clean_batch" THEN clean_record(records[i])
    ELSE enrich_record(records[i], call.nows[i])

\* C18: isolate and continue.  clean_batch and enrich_batch return a list of
\* the length and order of the input; the position of a record whose
\* processing fails holds the original record, every other position the
\* processed record, and the batch call itself does not fail.
C18_IsolateAndContinue ==
    call.op \in {"clean_batch", "enrich_batch"} =>
        /\ ~HasRaised(ret)
        /\ Len(ret.value) = Len(records)
        /\ \A i \in 1..Len(records) :
              IF IsDict(records[i])
              THEN /\ ~HasRaised(Processed(i))
                   /\ ret.value[i] = Processed(i).value
                   /\ call.op = "enrich_batch" => "quality_score" \in DOMAIN ret.value[i]
              ELSE ret.value[i] = records[i]

\* A batch of three whose second record failed: it is kept as it was, the
\* first and the third were cleaned and changed.
C18_Witness ==
    /\ call.op = "clean_batch"
    /\ Len(records) = 3
    /\ ~IsDict(records[2])
    /\ ret.value[2] = records[2]
    /\ IsDict(records[1]) /\ ret.value[1] # records[1]
    /\ IsDict(records[3]) /\ ret.value[3] # records[3]

(***************************************************************************)
(* calculate_quality_score on one record.                                  *)
(***************************************************************************)
ScoreOwnerNames == {Absent, None, PyStr(<<" ">>), PyStr(<<"a">>)}
ScoreAssessedValues == {Absent, PyInt(0), PyFloat(0), PyInt(5), PyStr(<<"0">>)}
ScoreSalePrices == {Absent, PyInt(0), PyInt(5)}
ScoreTexts == {Absent, PyStr(<<"x">>)}

ScoreRecords ==
    {MakeRecord([owner_name |-> n, parcel_id |-> p, property_address |-> a,
                 mailing_address |-> m, city |-> c, state |-> st, zip_code |-> z,
                 county |-> co, assessed_value |-> v, sale_date |-> d,
                 sale_price |-> sp]) :
         n \in ScoreOwnerNames, p \in ScoreTexts, a \in ScoreTexts, m \in ScoreTexts,
         c \in ScoreTexts, st \in ScoreTexts, z \in ScoreTexts, co \in ScoreTexts,
         v \in ScoreAssessedValues, d \in ScoreTexts, sp \in ScoreSalePrices}

InitScore ==
    /\ records \in {<<record>> : record \in ScoreRecords}
    /\ wake_records = <<>>
    /\ orange_records = <<>>
    /\ sim = <<>>
    /\ call = NoCall
    /\ ret = Returned(None)

CalculateQualityScore ==
    /\ call = NoCall
    /\ call' = [op |-> "calculate_quality_score"]
    /\ ret' = Returned(calculate_quality_score(records[1]))
    /\ UNCHANGED <<records, wake_records, orange_records, sim>>

NextScore == CalculateQualityScore

SpecScore == InitScore /\ [][NextScore]_vars

\* The field has a value: present, not None, not a blank string and, for
\* assessed_value and sale_price, not the number zero.
Populated(record, field) ==
    /\ field \in DOMAIN record
    /\ ~IsNone(record[field])
    /\ ~(IsStr(record[field]) /\ strip(record[field].str) = <<>>)
    /\ field \in {"assessed_value", "sale_price"} =>
           /\ ~(IsInt(record[field]) /\ record[field].int = 0)
           /\ ~(IsFloat(record[field]) /\ record[field].float100 = 0)

\* The sum of the configured weights of a set of fields.
RECURSIVE WeightSum(_)
WeightSum(fields) ==
    IF fields = {} THEN 0
    ELSE LET f == CHOOSE g \in fields : TRUE
         IN score_weights(f) + WeightSum(fields \ {f})

PopulatedFields(record) == {f \in Range(WeightedFields) : Populated(record, f)}

\* C19: calculate_quality_score returns the sum of the weights of the weighted
\* fields that have a value, clamped to [0,100]: 0 with no populated weighted
\* field, the sum of all weights (100) with every weighted field populated.
C19_QualityScore ==
    call.op = "calculate_quality_score" =>
        LET total == WeightSum(PopulatedFields(records[1]))
        IN /\ IsFloat(ret.value)
           /\ ret.value.float100
                 = 100 * (IF total > 100 THEN 100 ELSE IF total < 0 THEN 0 ELSE total)
           /\ ret.value.float100 >= 0 /\ ret.value.float100 <= 100 * 100
           /\ PopulatedFields(records[1]) = {} => ret.value.float100 = 0
           /\ PopulatedFields(records[1]) = Range(WeightedFields) =>
                  ret.value.float100 = 100 * WeightSum(Range(WeightedFields))

\* A record with a zero assessed_value, a blank owner_name and some populated
\* fields was scored.
C19_Witness ==
    /\ call.op = "calculate_quality_score"
    /\ get(records[1], "assessed_value") = PyInt(0)
    /\ get(records[1], "owner_name") = PyStr(<<" ">>)
    /\ get(records[1], "sale_price") = PyInt(5)
    /\ Populated(records[1], "parcel_id")
    /\ ret.value = PyFloat(100 * 20)

(***************************************************************************)
(* sort_by_quality on enriched records: quality_score is a number or is    *)
(* missing.  sorted() is stable, also with reverse=True.                   *)
(***************************************************************************)
\* key=lambda r: r.get("quality_score", 0), in hundredths
quality_key(record) ==
    IF "quality_score" \notin DOMAIN record THEN 0
    ELSE IF IsFloat(record["quality_score"]) THEN record["quality_score"].float100
    ELSE 100 * record["quality_score"].int

\* Mutant of sorted_insert: the record goes before the records of the same key.
sorted_insert_before_equal(sorted, record, descending) ==
    LET ahead == {i \in 1..Len(sorted) :
                     IF descending THEN quality_key(sorted[i]) > quality_key(record)
                     ELSE quality_key(sorted[i]) < quality_key(record)}
    IN SubSeq(sorted, 1, Cardinality(ahead)) \o <<record>>
           \o SubSeq(sorted, Cardinality(ahead) + 1, Len(sorted))

\* The place of the next record in the sorted records before it: behind
\* every record that is not to come after it.
sorted_insert(sorted, record, descending) ==
    LET ahead == {i \in 1..Len(sorted) :
                     IF descending THEN quality_key(sorted[i]) >= quality_key(record)
                     ELSE quality_key(sorted[i]) <= quality_key(record)}
    IN SubSeq(sorted, 1, Cardinality(ahead)) \o <<record>>
           \o SubSeq(sorted, Cardinality(ahead) + 1, Len(sorted))

RECURSIVE sorted_from(_, _, _, _)
sorted_from(recs, i, sorted, descending) ==
    IF i > Len(recs) THEN sorted
    ELSE sorted_from(recs, i + 1, sorted_insert(sorted, recs[i], descending), descending)

sort_by_quality(recs, descending) == sorted_from(recs, 1, <<>>, descending)

SortScores == {Absent, PyFloat(0), PyFloat(5000), PyInt(50), PyFloat(10000)}
SortOwnerNames == {PyStr(<<"a">>), PyStr(<<"b">>)}

SortRecords ==
    {MakeRecord([owner_name |-> n, quality_score |-> q]) :
         n \in SortOwnerNames, q \in SortScores}

InitSort ==
    /\ records \in SeqsUpTo(SortRecords, MaxRecords)
    /\ wake_records = <<>>
    /\ orange_records = <<>>
    /\ sim = <<>>
    /\ call = NoCall
    /\ ret = Returned(None)

SortByQuality ==
    /\ call = NoCall
    /\ \E descending \in BOOLEAN :
         /\ call' = [op |-> "sort_by_quality", descending |-> descending]
         /\ ret' = Returned(sort_by_quality(records, descending))
    /\ UNCHANGED <<records, wake_records, orange_records, sim>>

NextSort == SortByQuality

SpecSort == InitSort /\ [][NextSort]_vars

\* The quality_score of a record as a number (hundredths), 0 when missing.
ScoreOf(record) ==
    IF "quality_score" \notin DOMAIN record THEN 0
    ELSE IF IsFloat(record["quality_score"]) THEN record["quality_score"].float100
    ELSE 100 * record["quality_score"].int

\* C20: sort_by_quality in the default descending order returns a permutation
\* of its input in which quality_score is non-increasing and records of equal
\* score keep their input order.
C20_StableDescending ==
    (call.op = "sort_by_quality" /\ call.descending) =>
        \E order \in [1..Len(records) -> 1..Len(records)] :
            /\ \A i, j \in 1..Len(records) : i # j => order[i] # order[j]
            /\ Len(ret.value) = Len(records)
            /\ \A k \in 1..Len(records) : ret.value[k] = records[order[k]]
            /\ \A k \in 1..(Len(records) - 1) :
                  /\ ScoreOf(ret.value[k]) >= ScoreOf(ret.value[k + 1])
                  /\ ScoreOf(ret.value[k]) = ScoreOf(ret.value[k + 1]) =>
                         order[k] < order[k + 1]

\* Three different records were sorted: two of the same score, behind a
\* record of a higher score that came last in the input.
C20_Witness ==
    /\ call.op = "sort_by_quality" /\ call.descending
    /\ Len(records) = 3
    /\ ScoreOf(records[1]) = ScoreOf(records[2])
    /\ records[1] # records[2]
    /\ ScoreOf(records[3]) > ScoreOf(records[1])
    /\ ret.value = <<records[3], records[1], records[2]>>

(***************************************************************************)
(* The quality views of the enricher: filter_by_quality, sort_by_quality,  *)
(* get_top_quality_records, add_rank.  records is the caller's list: the   *)
(* dict objects at its positions.  The lists the views return hold the     *)
(* same objects, so an assignment to a key of a returned record is an      *)
(* assignment to the caller's record.                                      *)
(***************************************************************************)
\* quality_order.get(level, 0)
quality_order(level) ==
    IF level = PyStr(<<"M", "e", "d", "i", "u", "m">>) THEN 1
    ELSE IF level = PyStr(<<"H", "i", "g", "h">>) THEN 2
    ELSE 0

\* The number min_score or record_score in hundredths.
hundredths(number) == IF IsFloat(number) THEN number.float100 ELSE 100 * number.int

\* The test of the loop of filter_by_quality: the record is appended.
passes_filter(record, min_quality_level, min_score) ==
    /\ quality_order(get_default(record, "quality_level", PyStr(<<"L", "o", "w">>)))
           >= quality_order(min_quality_level)
    /\ IsNone(min_score)
           \/ hundredths(get_default(record, "quality_score", PyInt(0)))
                  >= hundredths(min_score)

\* Positions of the records filter_by_quality returns.
filtered_positions(recs, min_quality_level, min_score) ==
    SortedSeq({i \in 1..Len(recs) : passes_filter(recs[i], min_quality_level, min_score)})

filter_by_quality(recs, min_quality_level, min_score) ==
    records_at(recs, filtered_positions(recs, min_quality_level, min_score))

\* sorted(records, key=..., reverse=descending) as positions of records:
\* position i comes before position j when its key is to come first, or
\* when the keys are equal and i is first in the input.
comes_before(recs, i, j, descending) ==
    \/ IF descending THEN quality_key(recs[i]) > quality_key(recs[j])
       ELSE quality_key(recs[i]) < quality_key(recs[j])
    \/ quality_key(recs[i]) = quality_key(recs[j]) /\ i < j

sorted_positions(recs, descending) ==
    [k \in 1..Len(recs) |->
        CHOOSE i \in 1..Len(recs) :
            Cardinality({j \in 1..Len(recs) : comes_before(recs, j, i, descending)}) = k - 1]

\* sorted_records[:n]
get_top_quality_records(recs, n) ==
    SubSeq(sort_by_quality(recs, TRUE), 1, IF n < Len(recs) THEN n ELSE Len(recs))

\* record["quality_rank"] = rank
set_quality_rank(record, rank) ==
    [field \in DOMAIN record \cup {"quality_rank"} |->
        IF field = "quality_rank" THEN PyInt(rank) ELSE record[field]]

\* The rank the loop of add_rank gives the record at position i.
rank_of(recs, i) ==
    CHOOSE rank \in 1..Len(recs) : sorted_positions(recs, TRUE)[rank] = i

\* The caller's records after add_rank: the loop assigned to the objects
\* of sorted_records, which are the objects of records.
ranked(recs) ==
    [i \in 1..Len(recs) |-> set_quality_rank(recs[i], rank_of(recs, i))]

add_rank(recs) == records_at(ranked(recs), sorted_positions(recs, TRUE))

ViewLevels == {Absent, PyStr(<<"L", "o", "w">>), PyStr(<<"M", "e", "d", "i", "u", "m">>),
               PyStr(<<"H", "i", "g", "h">>)}
ViewScores == {Absent, PyFloat(2000), PyFloat(5000), PyFloat(10000)}

ViewRecords ==
    {MakeRecord([quality_score |-> q, quality_level |-> l]) :
         q \in ViewScores, l \in ViewLevels}

InitViews ==
    /\ records \in SeqsUpTo(ViewRecords, MaxRecords)
    /\ wake_records = <<>>
    /\ orange_records = <<>>
    /\ sim = <<>>
    /\ call = NoCall
    /\ ret = Returned(None)

\* call.records: the fields and values of the caller's list at the call.
FilterByQuality ==
    /\ call = NoCall
    /\ \E min_quality_level \in ViewLevels \ {Absent},
          min_score \in {None, PyInt(50)} :
         /\ call' = [op |-> "filter_by_quality", records |-> records,
                     min_quality_level |-> min_quality_level, min_score |-> min_score]
         /\ ret' = Returned(filter_by_quality(records, min_quality_level, min_score))
    /\ UNCHANGED <<records, wake_records, orange_records, sim>>

SortedView ==
    /\ call = NoCall
    /\ \E descending \in BOOLEAN :
         /\ call' = [op |-> "sort_by_quality", records |-> records,
                     descending |-> descending]
         /\ ret' = Returned(sort_by_quality(records, descending))
    /\ UNCHANGED <<records, wake_records, orange_records, sim>>

GetTopQualityRecords ==
    /\ call = NoCall
    /\ \E n \in 0..MaxRecords :
         /\ call' = [op |-> "get_top_quality_records", records |-> records, n |-> n]
         /\ ret' = Returned(get_top_quality_records(records, n))
    /\ UNCHANGED <<records, wake_records, orange_records, sim>>

AddRank ==
    /\ call = NoCall
    /\ call' = [op |-> "add_rank", records |-> records]
    /\ ret' = Returned(add_rank(records))
    /\ records' = ranked(records)
    /\ UNCHANGED <<wake_records, orange_records, sim>>

NextViews == FilterByQuality \/ SortedView \/ GetTopQualityRecords \/ AddRank

SpecViews == InitViews /\ [][NextViews]_vars

QualityViews == {"filter_by_quality", "sort_by_quality", "get_top_quality_records",
                 "add_rank"}

\* C21 (as stated): after add_rank, sort_by_quality, get_top_quality_records
\* or filter_by_quality every record of the caller's input list has the same
\* fields and values as before the call, and the list has the same order.
C21_AsStated ==
    call.op \in QualityViews => records = call.records

(***************************************************************************)
(* merge_sources called twice with the same two lists.  The keys are       *)
(* strings in a set: the order in which the set is iterated follows the    *)
(* string hashes, which are the same for the calls of one process and are  *)
(* seeded anew for every process.                                          *)
(***************************************************************************)
MergeSourcesTwice ==
    \/ /\ call = NoCall
       /\ \E key_order \in KeyOrders(all_keys(wake_records, orange_records, "parcel_id")) :
            /\ call' = [op |-> "merge_sources", times |-> 1, key_order |-> key_order,
                        first |-> merge_sources(wake_records, orange_records,
                                                "parcel_id", key_order)]
            /\ ret' = merge_sources(wake_records, orange_records, "parcel_id", key_order)
       /\ UNCHANGED <<records, wake_records, orange_records, sim>>
    \/ /\ call.op = "merge_sources" /\ call.times = 1
       /\ \E same_process \in BOOLEAN,
             key_order \in KeyOrders(all_keys(wake_records, orange_records, "parcel_id")) :
            /\ same_process => key_order = call.key_order
            /\ call' = [call EXCEPT !.times = 2, !.key_order = key_order]
            /\ ret' = merge_sources(wake_records, orange_records, "parcel_id", key_order)
       /\ UNCHANGED <<records, wake_records, orange_records, sim>>

NextTwice == MergeSourcesTwice

SpecTwice == InitMerge /\ [][NextTwice]_vars

\* C25 (as stated): two calls of merge_sources with the same source lists
\* return the same output list with the records in the same order, whatever
\* the iteration order of the set of keys.
C25_AsStated ==
    (call.op = "merge_sources" /\ call.times = 2) => ret = call.first

(***************************************************************************)
(* Claims about the error paths and the output of the dedup stage.         *)
(***************************************************************************)
\* C26 (as stated): merge_duplicate_group with most_complete returns a merged
\* record for every non-empty group, also when a field holds a string in one
\* member and a number or a boolean in another: it never raises.
C26_AsStated ==
    (/\ call.op = "merge_duplicate_group"
     /\ call.strategy = "most_complete"
     /\ records # <<>>) =>
        ~HasRaised(ret)

(***************************************************************************)
(* merge_record_pair on two records with the provenance fields source,     *)
(* source_url and extracted_at (ISO timestamps, compared as strings) and   *)
(* an owner_name that only one of them may hold.                           *)
(***************************************************************************)
ProvenanceSources == {Absent, EmptyStr, PyStr(<<"W">>), PyStr(<<"O">>)}
ProvenanceUrls == {Absent, None, EmptyStr, PyStr(<<"x">>), PyStr(<<"y">>)}
ProvenanceTimes == {Absent, None, EmptyStr, PyStr(<<"1">>), PyStr(<<"2">>),
                    PyStr(<<"1", "2">>)}
ProvenanceOwnerNames == {Absent, PyStr(<<"a">>)}

ProvenanceRecords ==
    {MakeRecord([source |-> s, source_url |-> u, extracted_at |-> t, owner_name |-> n]) :
         s \in ProvenanceSources, u \in ProvenanceUrls, t \in ProvenanceTimes,
         n \in ProvenanceOwnerNames}

InitProvenance ==
    /\ records \in [1..2 -> ProvenanceRecords]
    /\ wake_records = <<>>
    /\ orange_records = <<>>
    /\ sim = <<>>
    /\ call = NoCall
    /\ ret = Returned(None)

NextProvenance == MergeRecordPair

SpecProvenance == InitProvenance /\ [][NextProvenance]_vars

\* The non-empty values of record1 then record2 for the field.
PairValues(field) ==
    SelectSeq(<<get(records[1], field), get(records[2], field)>>, NonEmpty)

\* The values joined by the separator, the empty string when there is none.
JoinedBy(sep, values) ==
    IF values = <<>> THEN EmptyStr
    ELSE IF Len(values) = 1 THEN values[1]
    ELSE PyStr(values[1].str \o sep \o values[2].str)

\* The field is a key of one of the two records.
HeldByEither(field) == field \in DOMAIN records[1] \cup DOMAIN records[2]

KeyedParcelIds == {Absent, PyStr(<<"p">>), PyStr(<<"P", " ">>), PyStr(<<"q">>)}
KeyedOwnerNames == {PyStr(<<"a">>), PyStr(<<"b">>)}

KeyedRecords ==
    {MakeRecord([parcel_id |-> p, owner_name |-> n]) :
         p \in KeyedParcelIds, n \in KeyedOwnerNames}

InitKeyed == InputState(KeyedRecords, MaxRecords, NameScores)

NextKeyed == DeduplicateAndMerge

SpecKeyed == InitKeyed /\ [][NextKeyed]_vars

\* C28: after deduplicate_and_merge with use_exact (any merge strategy, fuzzy
\* pass on or off) no two records of the deduplicated output have the same
\* non-empty trimmed, uppercased parcel_id.
C28_UniqueKeys ==
    (call.op = "deduplicate_and_merge" /\ call.use_exact /\ ~HasRaised(ret)) =>
        LET out == ret.value.deduplicated_records
        IN \A i, j \in 1..Len(out) :
              (i # j /\ ParcelOf(out[i]) # <<>>) => ParcelOf(out[i]) # ParcelOf(out[j])

\* Three records of one parcel_id, written in two ways, were merged into one
\* record of the output.
C28_Witness ==
    /\ call.op = "deduplicate_and_merge" /\ call.use_exact /\ ~HasRaised(ret)
    /\ Len(records) = 3
    /\ \A i \in 1..3 : ParcelOf(records[i]) = <<"P">>
    /\ \E i, j \in 1..3 : get(records[i], "parcel_id") # get(records[j], "parcel_id")
    /\ Len(ret.value.deduplicated_records) = 1
    /\ ParcelOf(ret.value.deduplicated_records[1]) = <<"P">>

\* C29: with the fuzzy pass enabled no two records find_duplicates returns as
\* unique are fuzzy duplicates of each other: for unique records u and v, u
\* earlier in the input, the pairwise predicate on (u, v) is false.
C29_UniquesDoNotMatch ==
    (FoundDuplicates /\ call.use_fuzzy) =>
        \A u, v \in Range(ret.value.unique_records) :
            u < v => ~_is_fuzzy_duplicate(records[u], records[v])

\* Three records with different owner names, which the matcher scored below
\* the threshold, were all returned as unique.
C29_Witness ==
    /\ FoundDuplicates /\ call.use_fuzzy
    /\ Len(records) = 3
    /\ ret.value.unique_records = <<1, 2, 3>>
    /\ \A u, v \in 1..3 :
          u < v => /\ normalized(records[u], "owner_name") # <<>>
                   /\ normalized(records[v], "owner_name") # <<>>
                   /\ normalized(records[u], "owner_name") # normalized(records[v], "owner_name")
                   /\ sim[<<normalized(records[u], "owner_name"),
                            normalized(records[v], "owner_name")>>] < fuzzy_name_threshold

(***************************************************************************)
(* merge_sources followed by deduplicate_and_merge on the merged list, as  *)
(* the merge and dedup stages of the pipeline run them (exact pass on,     *)
(* strategy most_complete).                                                *)
(***************************************************************************)
\* The list merge_sources returned is handed to deduplicate_and_merge.
DeduplicateMerged ==
    /\ call.op = "merge_sources"
    /\ ~HasRaised(ret)
    /\ \E use_fuzzy \in BOOLEAN :
         /\ records' = ret.value.merged_records
         /\ call' = [op |-> "deduplicate_and_merge", merge_strategy |-> "most_complete",
                     use_exact |-> TRUE, use_fuzzy |-> use_fuzzy]
         /\ ret' = deduplicate_and_merge(ret.value.merged_records, "most_complete",
                                         TRUE, use_fuzzy)
    /\ UNCHANGED <<wake_records, orange_records, sim>>

InflationParcelIds == {Absent, PyStr(<<" ">>), PyStr(<<"p">>), PyStr(<<"q">>)}

InitInflation ==
    /\ wake_records \in
         SeqsUpTo({MakeRecord([parcel_id |-> p, source |-> PyStr(<<"W">>)]) :
                       p \in InflationParcelIds}, MaxSource)
    /\ orange_records \in
         SeqsUpTo({MakeRecord([parcel_id |-> p, source |-> PyStr(<<"O">>)]) :
                       p \in InflationParcelIds}, MaxRecords)
    /\ records = <<>>
    /\ sim = <<>>
    /\ call = NoCall
    /\ ret = Returned(None)

NextInflation == MergeSources \/ DeduplicateMerged

SpecInflation == InitInflation /\ [][NextInflation]_vars

\* C30 (as stated): for any two source lists A and B the result of
\* deduplicate_and_merge (exact pass enabled) on the list merge_sources
\* returned never has more than |A| + |B| records.
C30_AsStated ==
    (call.op = "deduplicate_and_merge" /\ ~HasRaised(ret)) =>
        Len(ret.value.deduplicated_records) <= Len(wake_records) + Len(orange_records)

(***************************************************************************)
(* The end-to-end scenario: two records of the first source and one of the *)
(* second share a parcel_id; two records have the same owner name and      *)
(* addresses that differ by Street/St only; a further record may be there. *)
(* A record may lack a parcel_id.                                          *)
(***************************************************************************)
SharedRecord(parcel_id, source) ==
    MakeRecord([parcel_id |-> parcel_id, owner_name |-> PyStr(<<"a">>), source |-> source])

StreetAddress == PyStr(<<"1", " ", "S", "t", "r", "e", "e", "t">>)
StAddress == PyStr(<<"1", " ", "S", "t">>)

PairRecord(parcel_id, property_address, source) ==
    MakeRecord([parcel_id |-> parcel_id, owner_name |-> PyStr(<<"c">>),
                property_address |-> property_address, source |-> source])

OtherRecord(parcel_id) ==
    MakeRecord([parcel_id |-> parcel_id, owner_name |-> PyStr(<<"d">>),
                source |-> PyStr(<<"W">>)])

\* The scores of the matcher for the two names and the two addresses it can
\* be asked about, the same in both directions.
ScenarioScores(name_score, address_score) ==
    [pr \in {<<<<"C">>, <<"D">>>>, <<<<"D">>, <<"C">>>>,
             <<upper(StreetAddress.str), upper(StAddress.str)>>,
             <<upper(StAddress.str), upper(StreetAddress.str)>>} |->
        IF pr[1] \in {<<"C">>, <<"D">>} THEN name_score ELSE address_score]

\* The records of one source: of the pair (first, second) those that come
\* from it, behind its shared records and before the further record.
SourceList(shared, first, second, others, source) ==
    shared \o SelectSeq(<<first, second>>, LAMBDA r : r["source"] = source) \o others

InitScenario ==
    /\ \E spelled \in {PyStr(<<"p">>), PyStr(<<"P", " ">>)},
          parcel1 \in {Absent, PyStr(<<"q">>)},
          parcel2 \in {Absent, PyStr(<<"r">>)},
          source1 \in {PyStr(<<"W">>), PyStr(<<"O">>)},
          source2 \in {PyStr(<<"W">>), PyStr(<<"O">>)},
          others \in SeqsUpTo({OtherRecord(Absent), OtherRecord(PyStr(<<"u">>))}, 1) :
         /\ wake_records =
               SourceList(<<SharedRecord(PyStr(<<"p">>), PyStr(<<"W">>)),
                            SharedRecord(spelled, PyStr(<<"W">>))>>,
                          PairRecord(parcel1, StreetAddress, source1),
                          PairRecord(parcel2, StAddress, source2),
                          others, PyStr(<<"W">>))
         /\ orange_records =
               SourceList(<<SharedRecord(PyStr(<<"p">>), PyStr(<<"O">>))>>,
                          PairRecord(parcel1, StreetAddress, source1),
                          PairRecord(parcel2, StAddress, source2),
                          <<>>, PyStr(<<"O">>))
    /\ \E name_score \in NameScores, address_score \in Scores :
         sim = ScenarioScores(name_score, address_score)
    /\ records = <<>>
    /\ call = NoCall
    /\ ret = Returned(None)

NextScenario == MergeSources \/ DeduplicateMerged

SpecScenario == InitScenario /\ [][NextScenario]_vars

\* The records of the two input lists that are neither of the shared
\* parcel_id nor of the pair.
OtherInputs ==
    {r \in Range(wake_records \o orange_records) : get(r, "owner_name") = PyStr(<<"d">>)}

\* The two records of the pair are fuzzy duplicates, in either order, and
\* the further record is a fuzzy duplicate of neither.
PairMatchesOthersDoNot ==
    /\ sim[<<upper(StreetAddress.str), upper(StAddress.str)>>] >= fuzzy_address_threshold
    /\ sim[<<<<"C">>, <<"D">>>>] < fuzzy_name_threshold

\* C24 (as stated): merge_sources followed by deduplicate_and_merge, on two A
\* records and one B record that share a parcel_id plus a pair of fuzzy
\* duplicates (same name, addresses that differ by Street/St): the final list
\* holds exactly one record of the shared parcel_id, cross-source merged,
\* exactly one merged record for the pair, every other record untouched, and
\* no more records than the input.
C24_AsStated ==
    (call.op = "deduplicate_and_merge" /\ call.use_fuzzy /\ PairMatchesOthersDoNot) =>
        /\ ~HasRaised(ret)
        /\ LET out == ret.value.deduplicated_records
               shared == {k \in 1..Len(out) : ParcelOf(out[k]) = <<"P">>}
               pair == {k \in 1..Len(out) : get(out[k], "owner_name") = PyStr(<<"c">>)}
           IN /\ Cardinality(shared) = 1
              /\ \A k \in shared : get(out[k], "is_cross_source_merged") = PyBool(TRUE)
              /\ Cardinality(pair) = 1
              /\ \A k \in pair : get(out[k], "is_merged") = PyBool(TRUE)
              /\ \A r \in OtherInputs : r \in Range(out)
              /\ Len(out) <= Len(wake_records) + Len(orange_records)

(***************************************************************************)
(* PropertyPipeline.run (src/src/pipeline.py).  The fetched lists are the  *)
(* input of the run: wake_records and orange_records are the locals of     *)
(* run, reassigned by the validation and the cleaning stage.  call is the  *)
(* frame of run: where it is (pc), its other locals, the keys written to   *)
(* statistics["stages"], and the stage calls it has made (trace), each     *)
(* with its argument and what it returned or raised.                       *)
(***************************************************************************)
Stages == <<"validate", "clean", "merge", "deduplicate", "enrich", "export">>

OutputFormats == {"excel", "csv", "json"}

\* Mutant of next_stage: the enrichment stage is left out.
next_stage_without_enrich(stage) ==
    IF stage = "validate" THEN "clean"
    ELSE IF stage = "clean" THEN "merge"
    ELSE IF stage = "merge" THEN "deduplicate"
    ELSE IF stage = "deduplicate" THEN "export"
    ELSE "finalize"

\* The statement of the try block that follows the call of the stage.
next_stage(stage) ==
    IF stage = "validate" THEN "clean"
    ELSE IF stage = "clean" THEN "merge"
    ELSE IF stage = "merge" THEN "deduplicate"
    ELSE IF stage = "deduplicate" THEN "enrich"
    ELSE IF stage = "enrich" THEN "export"
    ELSE "finalize"

filter_valid_records(recs, strict) == validate_batch(recs, strict, FALSE).valid_records

_stage_validate(wake, orange) ==
    Returned([wake_records |-> filter_valid_records(wake, FALSE),
              orange_records |-> filter_valid_records(orange, FALSE)])

_stage_clean(wake, orange) ==
    Returned([wake_records |-> clean_batch(wake), orange_records |-> clean_batch(orange)])

_stage_merge(wake, orange, key_order) == merge_sources(wake, orange, "parcel_id", key_order)

_stage_deduplicate(recs) == deduplicate_and_merge(recs, "most_complete", TRUE, TRUE)

_stage_enrich(recs, now) == Returned(enrich_batch(recs, [i \in 1..Len(recs) |-> now]))

\* output_path stands for the file the exporter wrote.
_stage_export(output_format) ==
    IF output_format \in OutputFormats THEN Returned([output_path |-> output_format])
    ELSE Raised("ValueError")

\* The frame after a stage call: the call is added to the trace; an
\* exception leaves the try block, a return writes the stage's statistics
\* and goes on with the next statement.
after_stage(frame, stage, key, input, output) ==
    IF HasRaised(output)
    THEN [frame EXCEPT !.pc = "except", !.error = output.raised,
                       !.trace = Append(@, [stage |-> stage, input |-> input,
                                            output |-> output])]
    ELSE [frame EXCEPT !.pc = next_stage(stage),
                       !.statistics = Append(@, key),
                       !.trace = Append(@, [stage |-> stage, input |-> input,
                                            output |-> output])]

\* The assignment of what the stage returned to the locals of run that are
\* kept in the frame.
assign_locals(frame, stage, output) ==
    IF HasRaised(output) THEN frame
    ELSE IF stage = "merge" THEN [frame EXCEPT !.all_records = output.value.merged_records]
    ELSE IF stage = "deduplicate"
         THEN [frame EXCEPT !.deduplicated_records = output.value.deduplicated_records,
                            !.duplicates = output.value.all_duplicates]
    ELSE IF stage = "enrich" THEN [frame EXCEPT !.enriched_records = output.value]
    ELSE IF stage = "export" THEN [frame EXCEPT !.output_path = output.value.output_path]
    ELSE frame

stage_called(frame, stage, key, input, output) ==
    assign_locals(after_stage(frame, stage, key, input, output), stage, output)

\* wake_records, orange_records = self._stage_...(wake_records, orange_records)
sources_reassigned(stage, key, output) ==
    /\ call' = stage_called(call, stage, key,
                            [wake_records |-> wake_records,
                             orange_records |-> orange_records], output)
    /\ wake_records' = output.value.wake_records
    /\ orange_records' = output.value.orange_records

RunWakeRecords ==
    {[parcel_id |-> PyStr(<<"p">>), owner_name |-> n, property_address |-> PyStr(<<"x">>),
      assessed_value |-> v, source |-> PyStr(<<"W">>), extracted_at |-> PyStr(<<"1">>)] :
         n \in {PyStr(<<"a">>), EmptyStr}, v \in {PyInt(5), PyStr(<<"5">>)}}

RunOrangeRecords ==
    {MakeRecord([parcel_id |-> p, owner_name |-> PyStr(<<"a">>),
                 property_address |-> PyStr(<<"x">>), assessed_value |-> PyStr(<<"5">>),
                 source |-> PyStr(<<"O">>), extracted_at |-> PyStr(<<"2">>)]) :
         p \in {Absent, PyStr(<<"p">>)}}

InitRun ==
    /\ wake_records \in SeqsUpTo(RunWakeRecords, MaxSource)
    /\ orange_records \in SeqsUpTo(RunOrangeRecords, MaxSource)
    /\ records = <<>>
    /\ sim = <<>>
    /\ call = NoCall
    /\ ret = Returned(None)

\* run(output_format=...) up to the return of _stage_fetch_data.
Run ==
    /\ call = NoCall
    /\ \E output_format \in OutputFormats \cup {"xml"} :
         call' = [op |-> "run", output_format |-> output_format, pc |-> "validate",
                  statistics |-> <<>>, trace |-> <<>>, error |-> "",
                  all_records |-> <<>>, deduplicated_records |-> <<>>,
                  duplicates |-> <<>>, enriched_records |-> <<>>,
                  output_path |-> None]
    /\ UNCHANGED <<records, wake_records, orange_records, sim, ret>>

StageValidate ==
    /\ call.op = "run" /\ call.pc = "validate"
    /\ sources_reassigned("validate", "validation",
                          _stage_validate(wake_records, orange_records))
    /\ UNCHANGED <<records, sim, ret>>

StageClean ==
    /\ call.op = "run" /\ call.pc = "clean"
    /\ sources_reassigned("clean", "cleaning", _stage_clean(wake_records, orange_records))
    /\ UNCHANGED <<records, sim, ret>>

StageMerge ==
    /\ call.op = "run" /\ call.pc = "merge"
    /\ \E key_order \in KeyOrders(all_keys(wake_records, orange_records, "parcel_id")) :
         call' = stage_called(call, "merge", "merging",
                              [wake_records |-> wake_records,
                               orange_records |-> orange_records],
                              _stage_merge(wake_records, orange_records, key_order))
    /\ UNCHANGED <<records, wake_records, orange_records, sim, ret>>

StageDeduplicate ==
    /\ call.op = "run" /\ call.pc = "deduplicate"
    /\ call' = stage_called(call, "deduplicate", "deduplication", call.all_records,
                            _stage_deduplicate(call.all_records))
    /\ UNCHANGED <<records, wake_records, orange_records, sim, ret>>

StageEnrich ==
    /\ call.op = "run" /\ call.pc = "enrich"
    /\ \E now \in Timestamps :
         call' = stage_called(call, "enrich", "enrichment", call.deduplicated_records,
                              _stage_enrich(call.deduplicated_records, now))
    /\ UNCHANGED <<records, wake_records, orange_records, sim, ret>>

StageExport ==
    /\ call.op = "run" /\ call.pc = "export"
    /\ call' = stage_called(call, "export", "export",
                            [all_records |-> call.enriched_records,
                             wake_records |-> wake_records,
                             orange_records |-> orange_records,
                             duplicates |-> call.duplicates,
                             output_format |-> call.output_format],
                            _stage_export(call.output_format))
    /\ UNCHANGED <<records, wake_records, orange_records, sim, ret>>

\* The end of the try block: return {"success": True, ...}
Finalize ==
    /\ call.op = "run" /\ call.pc = "finalize"
    /\ call' = [call EXCEPT !.pc = "done"]
    /\ ret' = Returned([success |-> TRUE, output_path |-> call.output_path,
                        total_records |-> Len(call.enriched_records)])
    /\ UNCHANGED <<records, wake_records, orange_records, sim>>

\* except Exception as e: return {"success": False, "error": str(e), ...}
Except ==
    /\ call.op = "run" /\ call.pc = "except"
    /\ call' = [call EXCEPT !.pc = "done"]
    /\ ret' = Returned([success |-> FALSE, error |-> call.error])
    /\ UNCHANGED <<records, wake_records, orange_records, sim>>

NextRun ==
    \/ Run \/ StageValidate \/ StageClean \/ StageMerge \/ StageDeduplicate
    \/ StageEnrich \/ StageExport \/ Finalize \/ Except

SpecRun == InitRun /\ [][NextRun]_vars

\* The run is under way or over.
Running == call.op = "run"

\* The value a stage call of the trace returned.
Output(k) == call.trace[k].output.value

C23_AsStated ==
    (Running /\ call.pc = "done" /\ call.output_format \notin OutputFormats) =>
        HasRaised(ret)

====
